---- MODULE Spec2Model ----
(***************************************************************************)
(* P2Poker: the per-table replicated state machine (internal/table), the   *)
(* poker engine it drives (internal/engine) and the message fabric between *)
(* replicas (internal/netx, internal/cluster).                             *)
(*                                                                         *)
(* Node ids and player ids are strings in the program and are compared     *)
(* with the string order; here they are the integers 1..NumNodes with the  *)
(* integer order, and 0 stands for the empty id "".  Indices into Order    *)
(* (DealerIdx, TurnIdx) are 0-based as in the Go code.                      *)
(* The Lamport stamp of a message is never read by the table loop          *)
(* (onNet only merges it into the clock), so messages carry no stamp here. *)
(***************************************************************************)
EXTENDS Integers, Sequences, FiniteSets, TLC

\* tables[n]: the Table of node n (the replica of the one table).
\* net[s][r]: the messages node s has written to its TCP stream to node r
\*            and the loop of r has not taken yet, in order.
\* nextId:    the next unused action id (RandActionID never repeats one).
\* nprop, nbeat, nstep: user commands, heartbeat ticks and steps still
\*            allowed in this run.
\* last:      history of the last step (see Step).
\* game:      an engine.State driven call by call (SpecEngine); the
\*            cluster specifications leave it as NewState made it.
\* call:      history of the last call on game (see Called).
\* threads:   the goroutines that run code statement by statement: a table's
\*            commitAndBroadcast (SpecRace), the Lamport clock with its
\*            counter (SpecClock), a node's discoveries with its waiters
\*            (SpecDiscover); the other specifications run whole
\*            handlers and leave it idle.
VARIABLES tables, net, nextId, nprop, nbeat, nstep, last, game, call, threads

vars == <<tables, net, nextId, nprop, nbeat, nstep, last, game, call, threads>>

(* ------------------------------ bounds -------------------------------- *)
NumNodes == 2
MaxProposals == 2
MaxHeartbeats == 1
TrioProposals == 2
TrioSteps == 6
\* SpecKick: user commands, kicks included.
KickProposals == 2
\* SpecEngine: players, engine calls in a run, and the chips the callers
\* pass: the buy-in of a short stack, the size of a bet, the increments of
\* a raise (from BigBlind - 1 to BigBlind - 1 + RaiseSteps).
NumPlayers == 3
EngineSteps == 5
ShortBuyin == 12
BetUnits == 1
RaiseSteps == 1
\* SpecSeats: engine calls in a run.
SeatSteps == 6
SplitSteps == 8
RaceCalls == 3
ClockBits == 4
ClockCalls == 4
NumTables == 2
DiscoverCalls == 3
DiscoverSnapshots == 2
LowRanks == 6

(* ------------------------- program constants -------------------------- *)
SmallBlind == 5
BigBlind == 10
MinBuyin == 200

PhasePreflop == 0
PhaseFlop == 1
PhaseTurn == 2
PhaseRiver == 3
PhaseShowdown == 4

CatHighCard == 0
CatOnePair == 1
CatTwoPair == 2
CatTrips == 3
CatStraight == 4
CatFlush == 5
CatFullHouse == 6
CatQuads == 7
CatStraightFlush == 8

None == 0
Unlimited == -1

(* ------------------------------ helpers ------------------------------- *)
EmptyMap == [x \in {} |-> x]

Min(a, b) == IF a < b THEN a ELSE b

Range(f) == {f[x] : x \in DOMAIN f}

\* Order[i] of the Go slice (0-based index).
At(seq, i) == seq[i + 1]

(* ------------------------------- cards -------------------------------- *)
Card(r, s) == [Rank |-> r, Suit |-> s]

\* The unshuffled deck NewDeck builds: suits 0..3 outer, ranks 2..14 inner.
FreshDeck == [i \in 1..52 |-> Card(2 + ((i - 1) % 13), (i - 1) \div 13)]

\* Stand-in for r.Intn(n) of the generator seeded with `seed`, at the step
\* of the Fisher-Yates loop with index i: a fixed function of (seed, i).
RandIntn(seed, i, n) == (seed * 31 + i * 17 + 7) % n

RECURSIVE FisherYates(_, _, _)
FisherYates(deck, seed, i) ==
    IF i <= 0 THEN deck
    ELSE LET j == RandIntn(seed, i, i + 1)
             swapped == [deck EXCEPT ![i + 1] = deck[j + 1], ![j + 1] = deck[i + 1]]
         IN FisherYates(swapped, seed, i - 1)

NewDeck(seed) == FisherYates(FreshDeck, seed, 51)

(* ------------------------------ engine -------------------------------- *)
NoErr == "nil"

Seat(stack) == [Stack |-> stack, Committed |-> 0, InHand |-> FALSE,
                AllIn |-> FALSE, Folded |-> FALSE]

NewState(sb, bb) ==
    [SmallBlind |-> sb, BigBlind |-> bb, DealerIdx |-> 0, Order |-> <<>>,
     TurnIdx |-> 0, Phase |-> PhasePreflop, Pot |-> 0, Seats |-> EmptyMap,
     Deck |-> <<>>, Board |-> <<>>, Holes |-> EmptyMap, CurrentBet |-> 0,
     ActorsToAct |-> 0, LastRaiseSize |-> 0, HandActive |-> FALSE]

Ret(s, err) == [s |-> s, err |-> err]

RECURSIVE InsertSorted(_, _)
InsertSorted(seq, p) ==
    IF seq = <<>> THEN <<p>>
    ELSE IF p < Head(seq) THEN <<p>> \o seq
    ELSE <<Head(seq)>> \o InsertSorted(Tail(seq), p)

\* Order after append + sortOrder (Order is sorted before the append).
sortOrder(order) ==
    IF order = <<>> THEN order
    ELSE InsertSorted(SubSeq(order, 1, Len(order) - 1), order[Len(order)])

Sit(s, p, buyin) ==
    IF p \in DOMAIN s.Seats THEN Ret(s, "already seated")
    ELSE Ret([s EXCEPT !.Seats = (p :> Seat(buyin)) @@ s.Seats,
                       !.Order = sortOrder(Append(s.Order, p))], NoErr)

Leave(s, p) ==
    LET order == SelectSeq(s.Order, LAMBDA id : id # p)
    IN [s EXCEPT !.Seats = [q \in DOMAIN s.Seats \ {p} |-> s.Seats[q]],
                 !.Holes = [q \in DOMAIN s.Holes \ {p} |-> s.Holes[q]],
                 !.Order = order,
                 !.TurnIdx = IF s.TurnIdx >= Len(order) THEN 0 ELSE s.TurnIdx]

postBlind(s, p, amt) ==
    LET seat == s.Seats[p]
        pay == IF seat.Stack < amt THEN seat.Stack ELSE amt
    IN IF seat.Stack <= 0
       THEN [s EXCEPT !.Seats[p].AllIn = TRUE]
       ELSE [s EXCEPT !.Seats[p].AllIn = (seat.Stack < amt) \/ seat.AllIn,
                      !.Seats[p].Stack = seat.Stack - pay,
                      !.Seats[p].Committed = seat.Committed + pay,
                      !.Pot = s.Pot + pay]

eligible(s, pid) ==
    /\ pid \in DOMAIN s.Seats
    /\ s.Seats[pid].InHand
    /\ ~s.Seats[pid].Folded
    /\ ~s.Seats[pid].AllIn

countNeedToAct(s) ==
    Cardinality({i \in 1..Len(s.Order) :
        /\ eligible(s, s.Order[i])
        /\ (s.CurrentBet = 0 \/ s.Seats[s.Order[i]].Committed < s.CurrentBet)})

RoundClosed(s) ==
    /\ s.HandActive
    /\ \/ s.ActorsToAct <= 0
       \/ Cardinality({i \in 1..Len(s.Order) : eligible(s, s.Order[i])}) <= 1

\* Deal two hole cards to every in-hand seat in Order; the error leaves the
\* holes dealt so far in place.
RECURSIVE dealHoles(_, _)
dealHoles(s, i) ==
    IF i > Len(s.Order) THEN Ret(s, NoErr)
    ELSE LET pid == s.Order[i]
             st == s.Seats[pid]
         IN IF st.InHand /\ ~st.Folded
            THEN IF Len(s.Deck) < 2
                 THEN Ret(s, "deck underflow dealing holes")
                 ELSE dealHoles([s EXCEPT !.Holes = (pid :> <<s.Deck[1], s.Deck[2]>>) @@ s.Holes,
                                          !.Deck = SubSeq(s.Deck, 3, Len(s.Deck))], i + 1)
            ELSE dealHoles(s, i + 1)

StartHand(s, seed) ==
    IF Len(s.Order) < 2 THEN Ret(s, "need at least 2 players")
    ELSE LET n == Len(s.Order)
             s1 == [s EXCEPT !.Pot = 0,
                             !.Seats = [p \in DOMAIN s.Seats |->
                                 [s.Seats[p] EXCEPT !.Committed = 0, !.InHand = TRUE,
                                                    !.Folded = FALSE, !.AllIn = FALSE]],
                             !.HandActive = TRUE,
                             !.DealerIdx = (s.DealerIdx + 1) % n]
             sbIdx == (s1.DealerIdx + 1) % n
             bbIdx == (s1.DealerIdx + 2) % n
             s2 == postBlind(s1, At(s1.Order, sbIdx), s1.SmallBlind)
             s3 == postBlind(s2, At(s2.Order, bbIdx), s2.BigBlind)
             s4 == [s3 EXCEPT !.TurnIdx = (bbIdx + 1) % n,
                              !.Phase = PhasePreflop,
                              !.CurrentBet = s3.BigBlind,
                              !.LastRaiseSize = s3.BigBlind]
             s5 == [s4 EXCEPT !.ActorsToAct = countNeedToAct(s4),
                              !.Deck = NewDeck(seed),
                              !.Board = <<>>,
                              !.Holes = EmptyMap]
         IN dealHoles(s5, 1)

resetCommittedAndSetTurnFromDealer(s) ==
    LET s1 == [s EXCEPT !.Seats = [p \in DOMAIN s.Seats |->
                                      [s.Seats[p] EXCEPT !.Committed = 0]]]
    IN IF Len(s1.Order) = 0
       THEN [s1 EXCEPT !.TurnIdx = 0, !.CurrentBet = 0,
                       !.LastRaiseSize = s1.BigBlind, !.ActorsToAct = 0]
       ELSE LET s2 == [s1 EXCEPT !.TurnIdx = (s1.DealerIdx + 1) % Len(s1.Order),
                                 !.CurrentBet = 0,
                                 !.LastRaiseSize = s1.BigBlind]
            IN [s2 EXCEPT !.ActorsToAct = countNeedToAct(s2)]

\* Move k cards from the deck to the board when the deck holds that many.
dealBoard(s, k) ==
    IF Len(s.Deck) >= k
    THEN [s EXCEPT !.Board = s.Board \o SubSeq(s.Deck, 1, k),
                   !.Deck = SubSeq(s.Deck, k + 1, Len(s.Deck))]
    ELSE s

AdvancePhase(s) ==
    CASE s.Phase = PhasePreflop ->
           [resetCommittedAndSetTurnFromDealer(dealBoard(s, 3)) EXCEPT !.Phase = PhaseFlop]
      [] s.Phase = PhaseFlop ->
           [resetCommittedAndSetTurnFromDealer(dealBoard(s, 1)) EXCEPT !.Phase = PhaseTurn]
      [] s.Phase = PhaseTurn ->
           [resetCommittedAndSetTurnFromDealer(dealBoard(s, 1)) EXCEPT !.Phase = PhaseRiver]
      [] s.Phase = PhaseRiver ->
           [s EXCEPT !.Phase = PhaseShowdown, !.HandActive = FALSE]
      [] OTHER -> s

CurrentPlayer(s) == IF Len(s.Order) = 0 THEN None ELSE At(s.Order, s.TurnIdx)

ensureTurn(s, p) == CurrentPlayer(s) = p

\* The seat the loop of advanceTurn stops at: the first live seat after
\* TurnIdx, or TurnIdx itself after a full cycle without one.
advanceTurn(s) ==
    LET n == Len(s.Order)
        live(k) == LET st == s.Seats[At(s.Order, (s.TurnIdx + k) % n)]
                   IN st.InHand /\ ~st.Folded /\ ~st.AllIn
        hits == {k \in 1..n : live(k)}
    IN IF n = 0 \/ hits = {} THEN s
       ELSE LET k == CHOOSE k \in hits : \A j \in hits : k <= j
            IN [s EXCEPT !.TurnIdx = (s.TurnIdx + k) % n]

\* st.Stack -= x; st.Committed += x; s.Pot += x
pay(s, p, x) ==
    [s EXCEPT !.Seats[p].Stack = s.Seats[p].Stack - x,
              !.Seats[p].Committed = s.Seats[p].Committed + x,
              !.Pot = s.Pot + x]

Bet(s, p, amt) ==
    IF p \notin DOMAIN s.Seats THEN Ret(s, "unknown player")
    ELSE IF ~ensureTurn(s, p) THEN Ret(s, "not player's turn")
    ELSE IF s.CurrentBet > 0 THEN Ret(s, "cannot bet; a bet already exists (use raise)")
    ELSE IF amt < s.BigBlind THEN Ret(s, "bet must be at least the big blind")
    ELSE IF amt <= 0 THEN Ret(s, "bet must be > 0")
    ELSE IF s.Seats[p].Stack < amt THEN Ret(s, "insufficient chips")
    ELSE LET s1 == pay(s, p, amt)
             s2 == [s1 EXCEPT !.CurrentBet = s1.Seats[p].Committed,
                              !.LastRaiseSize = amt]
             s3 == [s2 EXCEPT !.ActorsToAct = countNeedToAct(s2)]
         IN Ret(advanceTurn(s3), NoErr)

Check(s, p) ==
    IF p \notin DOMAIN s.Seats THEN Ret(s, "unknown player")
    ELSE IF ~ensureTurn(s, p) THEN Ret(s, "not player's turn")
    ELSE IF s.CurrentBet = 0
         THEN Ret(advanceTurn([s EXCEPT !.ActorsToAct = s.ActorsToAct - 1]), NoErr)
    ELSE IF s.Seats[p].Committed # s.CurrentBet
         THEN Ret(s, "cannot check; unmatched to current bet")
    ELSE Ret(advanceTurn([s EXCEPT !.ActorsToAct = s.ActorsToAct - 1]), NoErr)

Fold(s, p) ==
    IF p \notin DOMAIN s.Seats THEN Ret(s, "unknown player")
    ELSE IF ~ensureTurn(s, p) THEN Ret(s, "not player's turn")
    ELSE LET behind == s.CurrentBet > 0 /\ s.Seats[p].Committed < s.CurrentBet
             s1 == [s EXCEPT !.ActorsToAct = IF behind THEN s.ActorsToAct - 1
                                             ELSE s.ActorsToAct,
                             !.Seats[p].Folded = TRUE,
                             !.Seats[p].InHand = FALSE]
         IN Ret(advanceTurn(s1), NoErr)

\* Call with a short all-in call that raises the bar to what the caller
\* committed and makes every other seat act again.
CallReopening(s, p) ==
    IF p \notin DOMAIN s.Seats THEN Ret(s, "unknown player")
    ELSE IF ~ensureTurn(s, p) THEN Ret(s, "not player's turn")
    ELSE IF s.CurrentBet = 0 THEN Ret(s, "nothing to call")
    ELSE LET st == s.Seats[p]
             need == s.CurrentBet - st.Committed
         IN IF need <= 0 THEN Ret(s, "already matched")
            ELSE IF st.Stack >= need
                 THEN LET s1 == pay(s, p, need)
                      IN Ret(advanceTurn([s1 EXCEPT !.ActorsToAct = s1.ActorsToAct - 1]), NoErr)
            ELSE IF st.Stack <= 0 THEN Ret(s, "insufficient chips")
            ELSE LET s1 == [pay(s, p, st.Stack) EXCEPT !.Seats[p].AllIn = TRUE]
                     s2 == [s1 EXCEPT !.LastRaiseSize = s1.Seats[p].Committed]
                 IN Ret(advanceTurn([s2 EXCEPT !.ActorsToAct = countNeedToAct(s2)]), NoErr)

Call(s, p) ==
    IF p \notin DOMAIN s.Seats THEN Ret(s, "unknown player")
    ELSE IF ~ensureTurn(s, p) THEN Ret(s, "not player's turn")
    ELSE IF s.CurrentBet = 0 THEN Ret(s, "nothing to call")
    ELSE LET st == s.Seats[p]
             need == s.CurrentBet - st.Committed
         IN IF need <= 0 THEN Ret(s, "already matched")
            ELSE IF st.Stack >= need
                 THEN LET s1 == pay(s, p, need)
                      IN Ret(advanceTurn([s1 EXCEPT !.ActorsToAct = s1.ActorsToAct - 1]), NoErr)
            ELSE IF st.Stack <= 0 THEN Ret(s, "insufficient chips")
            ELSE LET s1 == [pay(s, p, st.Stack) EXCEPT !.Seats[p].AllIn = TRUE]
                 IN Ret(advanceTurn([s1 EXCEPT !.ActorsToAct = s1.ActorsToAct - 1]), NoErr)

\* A min-raise test that asks for more than the last raise.
aboveLastRaise(s, add) == add > s.LastRaiseSize

\* The min-raise test of the full-raise path: add >= s.LastRaiseSize.
meetsMinRaise(s, add) == add >= s.LastRaiseSize

Raise(s, p, add) ==
    IF p \notin DOMAIN s.Seats THEN Ret(s, "unknown player")
    ELSE IF ~ensureTurn(s, p) THEN Ret(s, "not player's turn")
    ELSE IF s.CurrentBet = 0 THEN Ret(s, "nothing to raise (use bet)")
    ELSE IF add <= 0 THEN Ret(s, "raise must be > 0")
    ELSE LET st == s.Seats[p]
             need == IF st.Committed < s.CurrentBet THEN s.CurrentBet - st.Committed ELSE 0
             total == need + add
         IN IF meetsMinRaise(s, add) /\ st.Stack >= total
            THEN \* full raise
                 LET s1 == pay(s, p, total)
                     s2 == [s1 EXCEPT !.CurrentBet = s1.Seats[p].Committed,
                                      !.LastRaiseSize = add]
                     s3 == [s2 EXCEPT !.ActorsToAct = countNeedToAct(s2)]
                 IN Ret(advanceTurn(s3), NoErr)
            ELSE IF st.Stack < total
            THEN \* short all-in raise
                 LET callPart == Min(st.Stack, need)
                     s1 == IF callPart > 0 THEN pay(s, p, callPart) ELSE s
                     remain == s1.Seats[p].Stack
                 IN IF remain <= 0 THEN Ret(s1, "insufficient chips")
                    ELSE LET s2 == [pay(s1, p, remain) EXCEPT !.Seats[p].AllIn = TRUE]
                             dec == \/ s2.Seats[p].Committed - remain < s2.CurrentBet
                                    \/ need > 0
                         IN Ret(advanceTurn([s2 EXCEPT !.ActorsToAct =
                                    IF dec THEN s2.ActorsToAct - 1 ELSE s2.ActorsToAct]), NoErr)
            ELSE \* st.Stack >= total and add < LastRaiseSize
                 Ret(s, "raise too small (below min-raise)")

(* --------------------------- hand evaluation -------------------------- *)
HandValue(cat, ranks) == [Cat |-> cat, Ranks |-> ranks]

\* fill: the kickers given, padded with 0 to five entries.
fill(cat, ks) == HandValue(cat, [i \in 1..5 |-> IF i <= Len(ks) THEN ks[i] ELSE 0])

RECURSIVE lessFrom(_, _, _)
lessFrom(a, b, i) ==
    IF i > 5 THEN FALSE
    ELSE IF a[i] # b[i] THEN a[i] < b[i]
    ELSE lessFrom(a, b, i + 1)

Less(hv, other) ==
    IF hv.Cat # other.Cat THEN hv.Cat < other.Cat
    ELSE lessFrom(hv.Ranks, other.Ranks, 1)

MaxOf(S) == CHOOSE x \in S : \A y \in S : y <= x

\* The highest n ranks of S in descending order, padded with 0.
RECURSIVE topRanks(_, _)
topRanks(S, n) ==
    IF n = 0 THEN <<>>
    ELSE IF S = {} THEN <<0>> \o topRanks(S, n - 1)
    ELSE <<MaxOf(S)>> \o topRanks(S \ {MaxOf(S)}, n - 1)

\* Top rank of a straight in a set of ranks, 0 when there is none.  The
\* wheel test comes first, as in the code.
straightTop(bits) ==
    IF {14, 5, 4, 3, 2} \subseteq bits THEN 5
    ELSE LET tops == {t \in 6..14 : (t - 4)..t \subseteq bits}
         IN IF tops = {} THEN 0 ELSE MaxOf(tops)

BestHand7(board, holes) ==
    LET all == board \o holes
        idx == 1..Len(all)
        rankCount(r) == Cardinality({i \in idx : all[i].Rank = r})
        suitCount(su) == Cardinality({i \in idx : all[i].Suit = su})
        present == {all[i].Rank : i \in idx}
        \* groups: count descending, then rank descending
        before(r1, r2) == \/ rankCount(r1) > rankCount(r2)
                          \/ rankCount(r1) = rankCount(r2) /\ r1 > r2
        groupAt(k) == CHOOSE r \in present :
                          Cardinality({q \in present : before(q, r)}) = k
        nGroups == Cardinality(present)
        flushSuits == {su \in 0..3 : suitCount(su) >= 5}
        flushSuit == CHOOSE su \in flushSuits : \A o \in flushSuits : su <= o
        suitBits == {all[i].Rank : i \in {j \in idx : all[j].Suit = flushSuit}}
        g0 == groupAt(0)
        g1 == groupAt(1)
        pairOrTrips == {k \in 1..(nGroups - 1) : rankCount(groupAt(k)) >= 2}
    IN IF flushSuits # {}
       THEN IF straightTop(suitBits) # 0
            THEN fill(CatStraightFlush, <<straightTop(suitBits)>>)
            ELSE fill(CatFlush, topRanks(suitBits, 5))
       ELSE IF nGroups > 0 /\ rankCount(g0) = 4
       THEN fill(CatQuads, <<g0>> \o topRanks(present \ {g0}, 1))
       ELSE IF nGroups > 1 /\ rankCount(g0) = 3 /\ pairOrTrips # {}
       THEN fill(CatFullHouse, <<g0, groupAt(CHOOSE k \in pairOrTrips :
                                                \A j \in pairOrTrips : k <= j)>>)
       ELSE IF straightTop(present) # 0
       THEN fill(CatStraight, <<straightTop(present)>>)
       ELSE IF nGroups > 0 /\ rankCount(g0) = 3
       THEN fill(CatTrips, <<g0>> \o topRanks(present \ {g0}, 2))
       ELSE IF nGroups > 1 /\ rankCount(g0) = 2 /\ rankCount(g1) = 2
       THEN fill(CatTwoPair, <<g0, g1>> \o topRanks(present \ {g0, g1}, 1))
       ELSE IF nGroups > 0 /\ rankCount(g0) = 2
       THEN fill(CatOnePair, <<g0>> \o topRanks(present \ {g0}, 3))
       ELSE fill(CatHighCard, topRanks(present, 5))

(* ------------------------------ showdown ------------------------------ *)
\* The seats ResolveShowdown evaluates: seated, in hand and not folded.
showdownSeats(s) ==
    {p \in Range(s.Order) : p \in DOMAIN s.Seats /\ s.Seats[p].InHand /\ ~s.Seats[p].Folded}

holesOf(s, p) == IF p \in DOMAIN s.Holes THEN s.Holes[p] ELSE <<>>

handOf(s, p) == BestHand7(s.Board, holesOf(s, p))

showdownWinners(s) ==
    {p \in showdownSeats(s) : \A q \in showdownSeats(s) : ~Less(handOf(s, p), handOf(s, q))}

\* The remainder walk started at the dealer's own seat.
remainderSeatsFromDealer(s, winners, rem) ==
    LET n == Len(s.Order)
        start == s.DealerIdx % n
        pos(p) == CHOOSE i \in 0..(n - 1) : At(s.Order, (start + i) % n) = p
    IN {p \in winners : Cardinality({q \in winners : pos(q) < pos(p)}) < rem}

\* Winners that get one chip of the remainder: the first rem winners met
\* walking Order from (DealerIdx+1) mod N.
remainderSeats(s, winners, rem) ==
    LET n == Len(s.Order)
        start == (s.DealerIdx + 1) % n
        pos(p) == CHOOSE i \in 0..(n - 1) : At(s.Order, (start + i) % n) = p
    IN {p \in winners : Cardinality({q \in winners : pos(q) < pos(p)}) < rem}

ResolveShowdown(s) ==
    LET winners == showdownWinners(s)
        nw == Cardinality(winners)
        per == IF s.Pot > 0 /\ nw > 0 THEN s.Pot \div nw ELSE 0
        rem == IF s.Pot > 0 /\ nw > 0 THEN s.Pot % nw ELSE 0
        extra == IF rem > 0 THEN remainderSeats(s, winners, rem) ELSE {}
    IN IF showdownSeats(s) = {}
       THEN [s EXCEPT !.Pot = 0, !.HandActive = FALSE]
       ELSE [s EXCEPT !.Seats = [p \in DOMAIN s.Seats |->
                            IF p \in winners
                            THEN [s.Seats[p] EXCEPT !.Stack = s.Seats[p].Stack + per
                                                     + (IF p \in extra THEN 1 ELSE 0)]
                            ELSE s.Seats[p]],
                      !.Pot = 0, !.HandActive = FALSE]

(* ----------------------------- snapshots ------------------------------ *)
\* State.Snapshot: the fields of EngineSnapshot.
EngineSnapshot(s) ==
    [SmallBlind |-> s.SmallBlind, BigBlind |-> s.BigBlind, DealerIdx |-> s.DealerIdx,
     Order |-> s.Order, TurnIdx |-> s.TurnIdx, Phase |-> s.Phase, Pot |-> s.Pot,
     Board |-> s.Board, Seats |-> s.Seats]

\* State.RestoreFromSnapshot: the snapshot's fields overwrite the engine's,
\* every other field of the engine keeps its value.
RestoreFromSnapshot(s, ss) ==
    [s EXCEPT !.SmallBlind = ss.SmallBlind, !.BigBlind = ss.BigBlind,
              !.DealerIdx = ss.DealerIdx, !.Order = ss.Order, !.TurnIdx = ss.TurnIdx,
              !.Phase = ss.Phase, !.Pot = ss.Pot, !.Board = ss.Board,
              !.Seats = ss.Seats]

(* ------------------------- card text (JSON) --------------------------- *)
RankChars == <<"2", "3", "4", "5", "6", "7", "8", "9", "T", "J", "Q", "K", "A">>
SuitChars == <<"c", "d", "h", "s">>

\* Card.MarshalJSON: rank char then suit char.
MarshalCard(c) == <<RankChars[c.Rank - 1], SuitChars[c.Suit + 1]>>

\* Card.UnmarshalJSON on the text MarshalJSON emits.
UnmarshalCard(txt) ==
    Card(1 + (CHOOSE i \in 1..13 : RankChars[i] = txt[1]),
         (CHOOSE i \in 1..4 : SuitChars[i] = txt[2]) - 1)

\* json.Marshal of an EngineSnapshot: cards travel in their text form.
MarshalEngine(es) == [es EXCEPT !.Board = [i \in DOMAIN es.Board |-> MarshalCard(es.Board[i])]]

UnmarshalEngine(js) == [js EXCEPT !.Board = [i \in DOMAIN js.Board |-> UnmarshalCard(js.Board[i])]]

(* ------------------------------ protocol ------------------------------ *)
MsgPropose == "PROPOSE"
MsgCommit == "COMMIT"
MsgSnapshot == "SNAPSHOT"
MsgStateQuery == "STATE_QUERY"
MsgHeartbeat == "HEARTBEAT"

ActCreateTable == "CREATE_TABLE"
ActJoin == "JOIN"
ActLeave == "LEAVE"
ActStartHand == "START_HAND"
ActBet == "BET"
ActCall == "CALL"
ActRaise == "RAISE"
ActCheck == "CHECK"
ActFold == "FOLD"
ActKick == "KICK"
ActAdvance == "ADVANCE_PHASE"
ActShowdown == "SHOWDOWN"

\* protocol.Action; Target is Meta["target"] (0 when absent).
Action(id, type, player, amount, target) ==
    [ID |-> id, Type |-> type, PlayerID |-> player, Amount |-> amount, Target |-> target]

NoAction == Action(0, "", None, 0, None)

\* protocol.TableSnapshot (Cfg is the same at every node and left out).
TableSnapshot(seq, epoch, auth, engine) ==
    [Seq |-> seq, Epoch |-> epoch, Authority |-> auth, EngineJSON |-> engine]

NoState == TableSnapshot(0, 0, None, <<>>)

\* protocol.NetMessage.
NetMessage(from, type, epoch, seq, action, state) ==
    [From |-> from, Type |-> type, Epoch |-> epoch, Seq |-> seq,
     Action |-> action, State |-> state]

NoMsg == NetMessage(None, "", 0, 0, NoAction, NoState)

(* ------------------------------- table -------------------------------- *)
\* table.New
\* verdict is a history of apply: for each action id handed to the engine,
\* the error the engine returned (the one the "engine apply error" line
\* logs), NoErr if it accepted the action.
New(self, authority, epoch) ==
    [self |-> self, authority |-> authority, epoch |-> epoch, seq |-> 0,
     log |-> <<>>, dedup |-> {},
     authorityID |-> IF authority THEN self ELSE None,
     eng |-> NewState(SmallBlind, BigBlind),
     verdict |-> EmptyMap]

\* A handler runs on a context: the table t, the messages it has put on
\* netOut so far (out), the next unused action id (fresh) and whether it
\* has set t.lastHeartbeat to the current time (beat).
Ctx(t, fresh) == [t |-> t, out |-> <<>>, fresh |-> fresh, beat |-> FALSE]

\* t.lastHeartbeat = time.Now()
heard(c) == [c EXCEPT !.beat = TRUE]

emit(c, m) == [c EXCEPT !.out = Append(c.out, m)]

\* seedFromActionID hashes the id (FNV-1a); here a multiplicative hash of
\* the integer id, a fixed function of it like the original.
seedFromActionID(id) == ((2166 + id) * 403) % 65521

snapshot(t) ==
    TableSnapshot(t.seq, t.epoch, t.authorityID, MarshalEngine(EngineSnapshot(t.eng)))

installSnapshot(t, ss) ==
    [t EXCEPT !.seq = ss.Seq, !.epoch = ss.Epoch, !.authorityID = ss.Authority,
              !.eng = IF ss.EngineJSON # <<>>
                      THEN RestoreFromSnapshot(t.eng, UnmarshalEngine(ss.EngineJSON))
                      ELSE [t.eng EXCEPT !.SmallBlind = SmallBlind, !.BigBlind = BigBlind]]

sendSnapshotTo(c) ==
    IF ~c.t.authority THEN c
    ELSE emit(c, NetMessage(c.t.self, MsgSnapshot, c.t.epoch, 0, NoAction, snapshot(c.t)))

sendHeartbeat(c) ==
    IF ~c.t.authority THEN c
    ELSE emit(c, NetMessage(c.t.self, MsgHeartbeat, c.t.epoch, c.t.seq, NoAction, NoState))

\* A test that lets every node take over.
anyNodeID(t) == TRUE

isSmallestNodeID(t) ==
    IF t.authorityID = None THEN TRUE ELSE t.self < t.authorityID

\* The engine call apply makes for a, as (state, error); join of a seated
\* player and the synthesized commits are handled in apply itself.
engineStep(eng, a) ==
    CASE a.Type = ActJoin -> Sit(eng, a.PlayerID, MinBuyin)
      [] a.Type = ActLeave -> Ret(Leave(eng, a.PlayerID), NoErr)
      [] a.Type = ActKick ->
           IF a.Target # None THEN Ret(Leave(eng, a.Target), NoErr) ELSE Ret(eng, NoErr)
      [] a.Type = ActStartHand -> StartHand(eng, seedFromActionID(a.ID))
      [] a.Type = ActCheck -> Check(eng, a.PlayerID)
      [] a.Type = ActFold -> Fold(eng, a.PlayerID)
      [] a.Type = ActCall -> Call(eng, a.PlayerID)
      [] a.Type = ActRaise ->
           IF a.PlayerID \notin DOMAIN eng.Seats THEN Ret(eng, "unknown player")
           ELSE LET current == eng.CurrentBet
                    committed == eng.Seats[a.PlayerID].Committed
                    to == a.Amount
                    additional == to - committed
                    needCall == IF committed < current THEN current - committed ELSE 0
                    raiseBy == additional - needCall
                IN IF to <= current THEN Call(eng, a.PlayerID)
                   ELSE IF additional <= 0 THEN Ret(eng, NoErr)
                   ELSE IF raiseBy <= 0 THEN Call(eng, a.PlayerID)
                   ELSE Raise(eng, a.PlayerID, raiseBy)
      [] a.Type = ActBet -> Bet(eng, a.PlayerID, a.Amount)
      [] a.Type = ActAdvance -> Ret(AdvancePhase(eng), NoErr)
      [] a.Type = ActShowdown -> Ret(ResolveShowdown(eng), NoErr)
      [] OTHER -> Ret(eng, NoErr)

\* The tail of commitAndBroadcast and of applyCommit: log and dedup.
record(c, a) ==
    [c EXCEPT !.t.log = Append(c.t.log, a), !.t.dedup = c.t.dedup \cup {a.ID}]

emitCommit(c, a) ==
    emit(c, NetMessage(c.t.self, MsgCommit, c.t.epoch, c.t.seq, a, NoState))

\* An action the authority synthesizes, under a fresh action id.
synthesized(c, type) == Action(c.fresh, type, c.t.self, 0, None)

takeId(c) == [c EXCEPT !.fresh = c.fresh + 1]

RECURSIVE apply(_, _), commitAndBroadcast(_, _), afterAdvance(_, _), autoAdvance(_, _, _)

commitAndBroadcast(c, a) ==
    IF a.ID \in c.t.dedup THEN c
    ELSE emitCommit(record(apply([c EXCEPT !.t.seq = c.t.seq + 1], a), a), a)

\* advance_phase into showdown: the authority resolves at once
afterAdvance(c, a) ==
    IF a.Type = ActAdvance /\ c.t.authority /\ c.t.eng.Phase = PhaseShowdown
    THEN commitAndBroadcast(takeId(c), synthesized(c, ActShowdown))
    ELSE c

\* the authority advances the phase when the action closed the round
autoAdvance(c, a, err) ==
    IF err # NoErr THEN c
    ELSE IF /\ c.t.authority
            /\ c.t.eng.HandActive
            /\ RoundClosed(c.t.eng)
            /\ a.Type # ActAdvance
    THEN commitAndBroadcast(takeId(c), synthesized(c, ActAdvance))
    ELSE c

applyResult(c, a, r) ==
    autoAdvance(
        afterAdvance([c EXCEPT !.t.eng = r.s,
                               !.t.verdict = (a.ID :> r.err) @@ c.t.verdict], a),
        a, r.err)

apply(c, a) ==
    IF a.Type = ActJoin /\ a.PlayerID \in DOMAIN c.t.eng.Seats THEN c
    ELSE IF a.Type = ActBet /\ c.t.eng.CurrentBet # 0
    THEN apply(c, [a EXCEPT !.Type = ActRaise])
    ELSE applyResult(c, a, engineStep(c.t.eng, a))

adoptAuthority(c, msg) ==
    IF msg.Epoch > c.t.epoch \/ c.t.authorityID = None
    THEN [c EXCEPT !.t.epoch = msg.Epoch, !.t.authorityID = msg.From]
    ELSE c

\* applyCommit without the sequence check.
applyCommitAnySeq(c, a, seq) ==
    IF a.ID \in c.t.dedup THEN c
    ELSE record(apply([c EXCEPT !.t.seq = seq], a), a)

applyCommit(c, a, seq) ==
    IF a.ID \in c.t.dedup THEN c
    ELSE IF seq # c.t.seq + 1
    THEN emit(c, NetMessage(c.t.self, MsgStateQuery, c.t.epoch, 0, NoAction, NoState))
    ELSE record(apply([c EXCEPT !.t.seq = seq], a), a)

\* A handler that lets every epoch in.
staleEpochNever(c, msg) == FALSE

\* The epoch guard of the commit, snapshot and heartbeat handlers.
staleEpoch(c, msg) == msg.Epoch < c.t.epoch

\* A handler that lets every kick in.
kickGuardOff(c, msg) == FALSE

\* AUTH GUARD of the propose and commit handlers: a kick that does not come
\* from the node this table holds as authority.
kickGuard(c, msg) == msg.Action.Type = ActKick /\ msg.From # c.t.authorityID

onNet(c, msg) ==
    CASE msg.Type = MsgPropose ->
           IF ~c.t.authority THEN c
           ELSE IF kickGuard(c, msg) THEN c
           ELSE commitAndBroadcast(c, msg.Action)
      [] msg.Type = MsgCommit ->
           IF staleEpoch(c, msg) THEN c
           ELSE IF kickGuard(c, msg) THEN c
           ELSE heard(adoptAuthority(applyCommit(c, msg.Action, msg.Seq), msg))
      [] msg.Type = MsgSnapshot ->
           IF staleEpoch(c, msg) THEN c
           ELSE heard([c EXCEPT !.t = installSnapshot(c.t, msg.State)])
      [] msg.Type = MsgHeartbeat ->
           IF staleEpoch(c, msg) THEN c
           ELSE heard([c EXCEPT !.t.epoch = msg.Epoch, !.t.authorityID = msg.From])
      [] msg.Type = MsgStateQuery ->
           IF c.t.authority THEN sendSnapshotTo(c) ELSE c
      [] OTHER -> c

\* ProposeLocal that commits at every replica.
ProposeLocalCommitting(c, a) == commitAndBroadcast(c, a)

ProposeLocal(c, a) ==
    IF c.t.authority THEN commitAndBroadcast(c, a)
    ELSE emit(c, NetMessage(c.t.self, MsgPropose, c.t.epoch, 0, a, NoState))

\* FollowerTO: the floor of the follower timer, in seconds.
FollowerTO == 3

\* since: time.Since(t.lastHeartbeat), in seconds, when the timer fires.
tryAuthorityTakeover(c, since) ==
    IF c.t.authority THEN c
    ELSE IF since < FollowerTO THEN c
    ELSE IF ~isSmallestNodeID(c.t) THEN c
    ELSE sendSnapshotTo(sendHeartbeat(
             [c EXCEPT !.t.authority = TRUE, !.t.epoch = c.t.epoch + 1,
                       !.t.authorityID = c.t.self]))

(* ------------------------------ cluster ------------------------------- *)
\* The nodes of the cluster: the ones Init gave a table.
Nodes == DOMAIN tables

\* netOut -> transport broadcast: every message goes, in order, onto the
\* stream to each other node.
Broadcast(nw, n, msgs) ==
    [s \in Nodes |-> [r \in Nodes |->
        IF s = n /\ r # n THEN nw[s][r] \o msgs ELSE nw[s][r]]]

\* What a step leaves in `last`: the operation, the node whose loop ran it,
\* the message handled (NoMsg if none), the node's table before the step,
\* the messages the step put on netOut and whether it set lastHeartbeat.
Step(op, n, msg, c) ==
    [op |-> op, node |-> n, msg |-> msg, pre |-> tables[n], out |-> c.out, beat |-> c.beat]

\* The table of the creating node after CreateTable.
Created(cr) == commitAndBroadcast(Ctx(New(cr, TRUE, 0), 2), Action(1, ActCreateTable, cr, 0, None))

\* The actions committed up to the start of the first hand in a cluster of
\* N nodes: every node joins, then the creator starts the hand.
Opening(N, cr) ==
    [i \in 1..(N + 1) |->
        IF i <= N THEN Action(i + 1, ActJoin, i, 0, None)
        ELSE Action(i + 1, ActStartHand, cr, 0, None)]

RECURSIVE CommitAll(_, _, _)
CommitAll(c, script, i) ==
    IF i > Len(script) THEN c
    ELSE CommitAll(commitAndBroadcast(c, script[i]), script, i + 1)

RECURSIVE ReceiveAll(_, _)
ReceiveAll(c, msgs) ==
    IF msgs = <<>> THEN c
    ELSE ReceiveAll(onNet(c, Head(msgs)), Tail(msgs))

\* Every node attached before the first commit and has handled every commit
\* of the opening: the first hand has just started.
InitHandStarted(N, cr) ==
    LET auth == CommitAll(Created(cr), Opening(N, cr), 1)
    IN /\ tables = [n \in 1..N |->
                       IF n = cr THEN auth.t
                       ELSE ReceiveAll(Ctx(New(n, FALSE, 0), 0), auth.out).t]
       /\ net = [s \in 1..N |-> [r \in 1..N |-> <<>>]]
       /\ nextId = N + 3

\* The ghost `last` before any step.
NoStep ==
    [op |-> "init", node |-> None, msg |-> NoMsg, pre |-> New(None, FALSE, 0), out |-> <<>>,
     beat |-> FALSE]

\* The ghost `call` before any call on game.
NoCall ==
    [op |-> "new", player |-> None, amount |-> 0,
     pre |-> NewState(SmallBlind, BigBlind), err |-> NoErr]

\* The goroutines of a node that touch a table: the one started by
\* `go t.Run()` and the command shell that calls ProposeLocal.
Goroutines == {"run", "repl"}

\* No goroutine inside commitAndBroadcast, nothing put on netOut.
NoThreads ==
    [pc |-> [th \in Goroutines |-> "idle"],
     a |-> [th \in Goroutines |-> NoAction],
     seq |-> [th \in Goroutines |-> 0],
     out |-> <<>>]

\* A cluster of N nodes at the start of the first hand, with the user
\* commands and heartbeat ticks that remain to be taken.
\* steps: how many steps the run may take, or Unlimited.
InitCluster(N, creators, proposals, heartbeats, steps) ==
    /\ \E cr \in creators : InitHandStarted(N, cr)
    /\ nprop = proposals
    /\ nbeat = heartbeats
    /\ nstep = steps
    /\ last = NoStep
    /\ game = NewState(SmallBlind, BigBlind)
    /\ call = NoCall
    /\ threads = NoThreads

Init == InitCluster(NumNodes, 1..NumNodes, MaxProposals, MaxHeartbeats, Unlimited)

\* What a user of node n may propose with a new action id.
Proposals(n, id) ==
    { Action(id, ty, n, 0, None) : ty \in {ActCall, ActCheck, ActFold} }
    \cup { Action(id, ActBet, n, 3 * BigBlind, None) }

Finish(n, c, nw, lst) ==
    /\ nstep # 0
    /\ nstep' = IF nstep = Unlimited THEN Unlimited ELSE nstep - 1
    /\ tables' = [tables EXCEPT ![n] = c.t]
    /\ net' = Broadcast(nw, n, c.out)
    /\ nextId' = c.fresh
    /\ last' = lst
    /\ UNCHANGED <<game, call, threads>>

\* A user command at node n (ProposeLocal with a new action id).
Propose(n) ==
    /\ nprop > 0
    /\ \E a \in Proposals(n, nextId) :
         LET c == ProposeLocal(Ctx(tables[n], nextId + 1), a)
         IN Finish(n, c, net, Step("propose", n, NoMsg, c))
    /\ nprop' = nprop - 1
    /\ UNCHANGED nbeat

\* The Run loop of node r takes the next message of the stream from s.
Deliver(s, r) ==
    /\ s # r
    /\ net[s][r] # <<>>
    /\ LET msg == Head(net[s][r])
           c == onNet(Ctx(tables[r], nextId), msg)
       IN Finish(r, c, [net EXCEPT ![s][r] = Tail(net[s][r])], Step("deliver", r, msg, c))
    /\ UNCHANGED <<nprop, nbeat>>

\* The heartbeat ticker fires in the loop of an authority.
Heartbeat(n) ==
    /\ tables[n].authority
    /\ nbeat > 0
    /\ LET c == sendHeartbeat(Ctx(tables[n], nextId))
       IN Finish(n, c, net, Step("heartbeat", n, NoMsg, c))
    /\ nbeat' = nbeat - 1
    /\ UNCHANGED nprop

\* The follower timer fires: no message reached the loop for FollowerTO,
\* so at least that long has passed since lastHeartbeat was set.
Timeout(n) ==
    /\ ~tables[n].authority
    /\ LET c == tryAuthorityTakeover(Ctx(tables[n], nextId), FollowerTO)
       IN Finish(n, c, net, Step("timeout", n, NoMsg, c))
    /\ UNCHANGED <<nprop, nbeat>>

Next ==
    \/ \E n \in Nodes : Propose(n)
    \/ \E s, r \in Nodes : Deliver(s, r)
    \/ \E n \in Nodes : Heartbeat(n)
    \/ \E n \in Nodes : Timeout(n)

Spec == Init /\ [][Next]_vars

\* One node more, the table created by the node with the greatest id: a
\* proposal reaches two other nodes, and a follower can hear from two
\* authorities.
InitTrio == InitCluster(NumNodes + 1, {NumNodes + 1}, TrioProposals, 0, TrioSteps)

NextTrio ==
    \/ \E n \in Nodes : Propose(n)
    \/ \E s, r \in Nodes : Deliver(s, r)
    \/ \E n \in Nodes : Timeout(n)

SpecTrio == InitTrio /\ [][NextTrio]_vars

\* The kicks node n may hand to ProposeLocal with a new action id; the
\* target (Meta["target"]) is any player id.
Kicks(n, id) == { Action(id, ActKick, n, 0, target) : target \in Nodes }

\* ProposeLocal of a kick at node n, authority or not (the method takes any
\* action; the kick command of the REPL is one caller of it).
ProposeKick(n) ==
    /\ nprop > 0
    /\ \E a \in Kicks(n, nextId) :
         LET c == ProposeLocal(Ctx(tables[n], nextId + 1), a)
         IN Finish(n, c, net, Step("propose", n, NoMsg, c))
    /\ nprop' = nprop - 1
    /\ UNCHANGED nbeat

\* The cluster of Spec with users who also kick.
InitKick == InitCluster(NumNodes, 1..NumNodes, KickProposals, 0, Unlimited)

NextKick ==
    \/ \E n \in Nodes : Propose(n)
    \/ \E n \in Nodes : ProposeKick(n)
    \/ \E s, r \in Nodes : Deliver(s, r)
    \/ \E n \in Nodes : Timeout(n)

SpecKick == InitKick /\ [][NextKick]_vars

(* ------------------------------- engine ------------------------------- *)
\* One engine.State, as a table holds it, driven by the calls Table.apply
\* makes on it: no replication around it.
Players == 1..NumPlayers

Buyins == {MinBuyin, ShortBuyin}

Bets == {BigBlind * k : k \in 1..BetUnits}

Raises == (BigBlind - 1)..(BigBlind - 1 + RaiseSteps)

\* The seed StartHand shuffles with (one action id's seed).
HandSeed == seedFromActionID(1)

\* The engine after the players 1..Len(st) sat down with the stacks st.
RECURSIVE Seated(_, _)
Seated(st, n) ==
    IF n = 0 THEN NewState(SmallBlind, BigBlind)
    ELSE Sit(Seated(st, n - 1), n, st[n]).s

\* A betting round nobody raises in: the player to act calls or checks
\* until the round is closed, then the authority advances the phase.
RECURSIVE quietRound(_, _)
quietRound(s, fuel) ==
    IF fuel = 0 \/ RoundClosed(s) THEN AdvancePhase(s)
    ELSE quietRound((IF s.Seats[CurrentPlayer(s)].Committed < s.CurrentBet
                     THEN Call(s, CurrentPlayer(s))
                     ELSE Check(s, CurrentPlayer(s))).s, fuel - 1)

RECURSIVE quietRounds(_, _)
quietRounds(s, k) == IF k = 0 THEN s ELSE quietRounds(quietRound(s, Len(s.Order)), k - 1)

\* The cluster variables, unused around a lone engine.
NoCluster ==
    /\ tables = <<>>
    /\ net = <<>>
    /\ nextId = 0
    /\ nprop = 0
    /\ nbeat = 0
    /\ last = NoStep
    /\ threads = NoThreads

\* Two to NumPlayers players with stacks from Buyins, in the first hand at
\* the start of any of its four betting rounds.
InitEngine ==
    /\ NoCluster
    /\ nstep = EngineSteps
    /\ \E n \in 2..NumPlayers : \E st \in [1..n -> Buyins] : \E k \in 0..3 :
         game = quietRounds(StartHand(Seated(st, n), HandSeed).s, k)
    /\ call = NoCall

\* What a call leaves: r in game, and in `call` the operation, its
\* arguments, the engine before it and the error it returned.
Called(op, p, amt, r) ==
    /\ nstep > 0
    /\ nstep' = nstep - 1
    /\ game' = r.s
    /\ call' = [op |-> op, player |-> p, amount |-> amt, pre |-> game, err |-> r.err]
    /\ UNCHANGED <<tables, net, nextId, nprop, nbeat, last, threads>>

DoSit(p, buyin) == Called("sit", p, buyin, Sit(game, p, buyin))

DoLeave(p) == Called("leave", p, 0, Ret(Leave(game, p), NoErr))

DoStartHand == Called("start_hand", None, 0, StartHand(game, HandSeed))

DoCheck(p) == Called("check", p, 0, Check(game, p))

DoFold(p) == Called("fold", p, 0, Fold(game, p))

DoCall(p) == Called("call", p, 0, Call(game, p))

DoBet(p, amt) == Called("bet", p, amt, Bet(game, p, amt))

DoRaise(p, add) == Called("raise", p, add, Raise(game, p, add))

DoAdvancePhase == Called("advance_phase", None, 0, Ret(AdvancePhase(game), NoErr))

\* The showdown commit follows the advance_phase that reached the showdown
\* phase, at the authority and so in every log.
DoShowdown ==
    /\ call.op = "advance_phase"
    /\ game.Phase = PhaseShowdown
    /\ Called("showdown", None, 0, Ret(ResolveShowdown(game), NoErr))

\* The calls of a hand, the betting calls made for the player to act.
NextEngine ==
    \/ DoStartHand
    \/ DoCheck(CurrentPlayer(game))
    \/ DoFold(CurrentPlayer(game))
    \/ DoCall(CurrentPlayer(game))
    \/ \E amt \in Bets : DoBet(CurrentPlayer(game), amt)
    \/ \E add \in Raises : DoRaise(CurrentPlayer(game), add)
    \/ DoAdvancePhase
    \/ DoShowdown

SpecEngine == InitEngine /\ [][NextEngine]_vars

\* An action id whose seed deals three players hands of equal value.
SplitSeed == seedFromActionID(111)

\* Three players with stacks from Buyins, the hand just started with the
\* deck of SplitSeed.
InitSplit ==
    /\ NoCluster
    /\ nstep = SplitSteps
    /\ \E st \in [1..3 -> Buyins] : game = StartHand(Seated(st, 3), SplitSeed).s
    /\ call = NoCall

\* One hand played to its showdown.
NextSplit ==
    \/ DoCheck(CurrentPlayer(game))
    \/ DoFold(CurrentPlayer(game))
    \/ DoCall(CurrentPlayer(game))
    \/ \E add \in Raises : DoRaise(CurrentPlayer(game), add)
    \/ DoAdvancePhase
    \/ DoShowdown

SpecSplit == InitSplit /\ [][NextSplit]_vars

\* The engine from NewState on, with players who sit down, leave (or are
\* kicked: the same Leave) and start hands at any time, and betting calls
\* by any player, in turn or not.
InitSeats ==
    /\ NoCluster
    /\ nstep = SeatSteps
    /\ game = NewState(SmallBlind, BigBlind)
    /\ call = NoCall

NextSeats ==
    \/ \E p \in Players : DoSit(p, MinBuyin)
    \/ \E p \in Players : DoLeave(p)
    \/ DoStartHand
    \/ \E p \in Players : DoCheck(p)
    \/ \E p \in Players : DoFold(p)
    \/ \E p \in Players : DoCall(p)

SpecSeats == InitSeats /\ [][NextSeats]_vars

(* ------------------------ goroutines of a node ------------------------ *)
\* An authority's table (node 1, just created) whose code runs statement by
\* statement on two goroutines: Run handles the proposes node 2 sends, the
\* command shell calls ProposeLocal. nprop bounds the commands and proposes.
InitRace ==
    /\ tables = <<Created(1).t>>
    /\ net = <<>>
    /\ nextId = 2
    /\ nprop = RaceCalls
    /\ nbeat = 0
    /\ nstep = Unlimited
    /\ last = NoStep
    /\ game = NewState(SmallBlind, BigBlind)
    /\ call = NoCall
    /\ threads = NoThreads

\* Goroutine th goes from statement `from` to statement `to`.
Goto(th, from, to) ==
    /\ threads.pc[th] = from
    /\ threads' = [threads EXCEPT !.pc[th] = to]

\* Goroutine th enters commitAndBroadcast(a) with a new action id.
Enter(th, a) ==
    /\ nprop > 0
    /\ nprop' = nprop - 1
    /\ nextId' = nextId + 1
    /\ threads.pc[th] = "idle"
    /\ threads' = [threads EXCEPT !.pc[th] = "dedup", !.a[th] = a]
    /\ UNCHANGED <<tables, net, nbeat, nstep, last, game, call>>

\* Run: msg := <-t.in; onNet(msg) with a propose of node 2; the table is the
\* authority and the action is no kick, so onNet calls commitAndBroadcast.
RunOnNetPropose ==
    \E ty \in {ActJoin, ActLeave} :
        /\ tables[1].authority
        /\ Enter("run", Action(nextId, ty, 2, 0, None))

\* The command shell: t.ProposeLocal(a), at the authority a call of
\* commitAndBroadcast on the shell's own goroutine.
ReplProposeLocal ==
    \E ty \in {ActJoin, ActStartHand} :
        /\ tables[1].authority
        /\ Enter("repl", Action(nextId, ty, 1, 0, None))

\* if _, seen := t.dedup[a.ID]; seen { return }
CheckDedup(th) ==
    /\ Goto(th, "dedup", IF threads.a[th].ID \in tables[1].dedup THEN "idle" ELSE "load")
    /\ UNCHANGED <<tables, net, nextId, nprop, nbeat, nstep, last, game, call>>

\* t.seq++, the load
LoadSeq(th) ==
    /\ threads.pc[th] = "load"
    /\ threads' = [threads EXCEPT !.pc[th] = "store", !.seq[th] = tables[1].seq]
    /\ UNCHANGED <<tables, net, nextId, nprop, nbeat, nstep, last, game, call>>

\* t.seq++, the store
StoreSeq(th) ==
    /\ Goto(th, "store", "apply")
    /\ tables' = [tables EXCEPT ![1].seq = threads.seq[th] + 1]
    /\ UNCHANGED <<net, nextId, nprop, nbeat, nstep, last, game, call>>

\* t.apply(a), with the commits it synthesizes
ApplyAction(th) ==
    LET c == apply(Ctx(tables[1], nextId), threads.a[th])
    IN /\ threads.pc[th] = "apply"
       /\ threads' = [threads EXCEPT !.pc[th] = "log", !.out = threads.out \o c.out]
       /\ tables' = <<c.t>>
       /\ nextId' = c.fresh
       /\ UNCHANGED <<net, nprop, nbeat, nstep, last, game, call>>

\* t.log = append(t.log, a)
AppendLog(th) ==
    /\ Goto(th, "log", "mark")
    /\ tables' = [tables EXCEPT ![1].log = Append(tables[1].log, threads.a[th])]
    /\ UNCHANGED <<net, nextId, nprop, nbeat, nstep, last, game, call>>

\* t.dedup[a.ID] = struct{}{}
MarkDedup(th) ==
    /\ Goto(th, "mark", "send")
    /\ tables' = [tables EXCEPT ![1].dedup = tables[1].dedup \cup {threads.a[th].ID}]
    /\ UNCHANGED <<net, nextId, nprop, nbeat, nstep, last, game, call>>

\* t.netOut <- the commit, stamped with t.seq as it is now
SendCommit(th) ==
    /\ threads.pc[th] = "send"
    /\ threads' = [threads EXCEPT !.pc[th] = "idle",
                                  !.out = emitCommit(Ctx(tables[1], nextId), threads.a[th]).out
                                          \o threads.out]
    /\ UNCHANGED <<tables, net, nextId, nprop, nbeat, nstep, last, game, call>>

NextRace ==
    \/ RunOnNetPropose
    \/ ReplProposeLocal
    \/ \E th \in Goroutines : CheckDedup(th)
    \/ \E th \in Goroutines : LoadSeq(th)
    \/ \E th \in Goroutines : StoreSeq(th)
    \/ \E th \in Goroutines : ApplyAction(th)
    \/ \E th \in Goroutines : AppendLog(th)
    \/ \E th \in Goroutines : MarkDedup(th)
    \/ \E th \in Goroutines : SendCommit(th)

SpecRace == InitRace /\ [][NextRace]_vars

(* --------------------------- Lamport clock ---------------------------- *)
\* The counter is a uint64; here ClockBits wide, with so few calls that only
\* a remote value can take it to the top.
ClockMod == 2 ^ ClockBits

\* The Lamport values a message may carry.
Remotes == {0, 1, 2, ClockMod - 2, ClockMod - 1}

\* atomic.CompareAndSwapUint64 that stores whatever the counter holds.
casAlways(v, cur) == TRUE

\* atomic.CompareAndSwapUint64(&l.v, cur, next) swaps iff l.v = cur.
casSwaps(v, cur) == v = cur

\* TickRemote's next for the loaded value cur.
nextRemote(cur, remote) ==
    IF remote >= cur THEN (remote + 1) % ClockMod ELSE (cur + 1) % ClockMod

\* One clock at 0 shared by the goroutines; no call in progress. rets is the
\* history of the calls that returned, in the order of their atomic updates:
\* the counter when the call began (start), the value it replaced (old), the
\* remote value (None for tick_local) and the value returned.
InitClock ==
    /\ tables = <<>>
    /\ net = <<>>
    /\ nextId = 0
    /\ nprop = 0
    /\ nbeat = 0
    /\ nstep = ClockCalls
    /\ last = NoStep
    /\ game = NewState(SmallBlind, BigBlind)
    /\ call = NoCall
    /\ threads = [v |-> 0,
                  pc |-> [th \in Goroutines |-> "idle"],
                  remote |-> [th \in Goroutines |-> 0],
                  start |-> [th \in Goroutines |-> 0],
                  cur |-> [th \in Goroutines |-> 0],
                  rets |-> <<>>]

ClockFrame == UNCHANGED <<tables, net, nextId, nprop, nbeat, last, game, call>>

\* TickLocal: atomic.AddUint64(&l.v, 1)
TickLocal(th) ==
    /\ nstep > 0
    /\ nstep' = nstep - 1
    /\ threads.pc[th] = "idle"
    /\ threads' = [threads EXCEPT
           !.v = (threads.v + 1) % ClockMod,
           !.rets = Append(threads.rets,
                      [start |-> threads.v, old |-> threads.v, remote |-> None,
                       ret |-> (threads.v + 1) % ClockMod])]
    /\ ClockFrame

\* A goroutine calls TickRemote(remote).
TickRemoteCall(th, remote) ==
    /\ nstep > 0
    /\ nstep' = nstep - 1
    /\ threads.pc[th] = "idle"
    /\ threads' = [threads EXCEPT !.pc[th] = "load", !.remote[th] = remote,
                                  !.start[th] = threads.v]
    /\ ClockFrame

\* cur := atomic.LoadUint64(&l.v)
TickRemoteLoad(th) ==
    /\ threads.pc[th] = "load"
    /\ threads' = [threads EXCEPT !.pc[th] = "cas", !.cur[th] = threads.v]
    /\ UNCHANGED nstep
    /\ ClockFrame

\* if atomic.CompareAndSwapUint64(&l.v, cur, next) { return next }
TickRemoteCas(th) ==
    /\ threads.pc[th] = "cas"
    /\ threads' =
          IF casSwaps(threads.v, threads.cur[th])
          THEN [threads EXCEPT
                   !.pc[th] = "idle",
                   !.v = nextRemote(threads.cur[th], threads.remote[th]),
                   !.rets = Append(threads.rets,
                              [start |-> threads.start[th], old |-> threads.v,
                               remote |-> threads.remote[th],
                               ret |-> nextRemote(threads.cur[th], threads.remote[th])])]
          ELSE [threads EXCEPT !.pc[th] = "load"]
    /\ UNCHANGED nstep
    /\ ClockFrame

NextClock ==
    \/ \E th \in Goroutines : TickLocal(th)
    \/ \E th \in Goroutines : \E remote \in Remotes : TickRemoteCall(th, remote)
    \/ \E th \in Goroutines : TickRemoteLoad(th)
    \/ \E th \in Goroutines : TickRemoteCas(th)

SpecClock == InitClock /\ [][NextClock]_vars

(* ----------------------------- discovery ------------------------------ *)
\* The ids of the tables a node may look for.
TableIds == 1..NumTables

\* delete(n.pendingSS, tableID) that deletes nothing.
keepWaiter(pending, id) == pending

\* delete(n.pendingSS, tableID)
deleteWaiter(pending, id) == [i \in DOMAIN pending \ {id} |-> pending[i]]

\* A node with no table attached and no discovery in progress.
\* pending:  pendingSS, table id -> channel (channels are numbered as made)
\* full:     the channels whose one-element buffer holds a snapshot
\* attached: the table ids the router has a table for
\* pc, id, ch: where each goroutine is inside DiscoverAndAttach, for which
\*           table id, with which channel
\* res:      what the goroutine's last call returned ("" before any)
\* disp:     the channel maybeDeliverDiscovery has looked up, None if none
InitDiscover ==
    /\ tables = <<>>
    /\ net = <<>>
    /\ nextId = 1
    /\ nprop = DiscoverCalls
    /\ nbeat = DiscoverSnapshots
    /\ nstep = Unlimited
    /\ last = NoStep
    /\ game = NewState(SmallBlind, BigBlind)
    /\ call = NoCall
    /\ threads = [pending |-> EmptyMap,
                  full |-> {},
                  attached |-> {},
                  pc |-> [th \in Goroutines |-> "idle"],
                  id |-> [th \in Goroutines |-> None],
                  ch |-> [th \in Goroutines |-> None],
                  res |-> [th \in Goroutines |-> ""],
                  disp |-> None]

DiscoverFrame == UNCHANGED <<tables, net, nstep, last, game, call>>

\* DiscoverAndAttach(id) up to the unlock: an error if a waiter exists,
\* else a new channel becomes the waiter.
DiscoverBegin(th, id) ==
    /\ nprop > 0
    /\ nprop' = nprop - 1
    /\ threads.pc[th] = "idle"
    /\ IF id \in DOMAIN threads.pending
       THEN /\ threads' = [threads EXCEPT !.id[th] = id,
                                          !.res[th] = "discovery already in progress"]
            /\ UNCHANGED nextId
       ELSE /\ threads' = [threads EXCEPT !.pc[th] = "ask", !.id[th] = id,
                                          !.ch[th] = nextId, !.res[th] = "",
                                          !.pending = (id :> nextId) @@ threads.pending]
            /\ nextId' = nextId + 1
    /\ UNCHANGED nbeat
    /\ DiscoverFrame

\* n.net.Outbox() <- the state_query
DiscoverAsk(th) ==
    /\ threads.pc[th] = "ask"
    /\ threads' = [threads EXCEPT !.pc[th] = "wait"]
    /\ UNCHANGED <<nextId, nprop, nbeat>>
    /\ DiscoverFrame

\* case ss := <-ch: remove the waiter, attach the follower table (an error
\* if the table exists), propose the join.
DiscoverReceive(th) ==
    /\ threads.pc[th] = "wait"
    /\ threads.ch[th] \in threads.full
    /\ threads' = [threads EXCEPT
           !.pc[th] = "idle",
           !.full = threads.full \ {threads.ch[th]},
           !.pending = deleteWaiter(threads.pending, threads.id[th]),
           !.attached = threads.attached \cup {threads.id[th]},
           !.res[th] = IF threads.id[th] \in threads.attached
                       THEN "table exists" ELSE "attached"]
    /\ UNCHANGED <<nextId, nprop, nbeat>>
    /\ DiscoverFrame

\* case <-time.After(3 * time.Second): remove the waiter, return the error.
DiscoverTimeout(th) ==
    /\ threads.pc[th] = "wait"
    /\ threads' = [threads EXCEPT
           !.pc[th] = "idle",
           !.pending = deleteWaiter(threads.pending, threads.id[th]),
           !.res[th] = "discover timeout (no snapshot received)"]
    /\ UNCHANGED <<nextId, nprop, nbeat>>
    /\ DiscoverFrame

\* dispatcher: a snapshot for a table the router does not know;
\* maybeDeliverDiscovery looks the waiter up under the lock.
DispatchLookup(id) ==
    /\ nbeat > 0
    /\ nbeat' = nbeat - 1
    /\ threads.disp = None
    /\ id \notin threads.attached
    /\ threads' = [threads EXCEPT !.disp = IF id \in DOMAIN threads.pending
                                           THEN threads.pending[id] ELSE None]
    /\ UNCHANGED <<nextId, nprop>>
    /\ DiscoverFrame

\* select { case ch <- *msg.State: default: }
DispatchSend ==
    /\ threads.disp # None
    /\ threads' = [threads EXCEPT !.disp = None,
                                  !.full = threads.full \cup {threads.disp}]
    /\ UNCHANGED <<nextId, nprop, nbeat>>
    /\ DiscoverFrame

NextDiscover ==
    \/ \E th \in Goroutines : \E id \in TableIds : DiscoverBegin(th, id)
    \/ \E th \in Goroutines : DiscoverAsk(th)
    \/ \E th \in Goroutines : DiscoverReceive(th)
    \/ \E th \in Goroutines : DiscoverTimeout(th)
    \/ \E id \in TableIds : DispatchLookup(id)
    \/ DispatchSend

SpecDiscover == InitDiscover /\ [][NextDiscover]_vars

(* -------------------------- hands of 7 cards -------------------------- *)
\* The cards hands are drawn from: A and 2..LowRanks of suit 0, and four
\* cards of suit 1.
HandCards ==
    {Card(r, 0) : r \in {14} \cup 2..LowRanks}
    \cup {Card(14, 1), Card(2, 1), Card(6, 1), Card(9, 1)}

\* The cards of S in ascending order of (rank, suit).
RECURSIVE SeqOfCards(_)
SeqOfCards(S) ==
    IF S = {} THEN <<>>
    ELSE LET c == CHOOSE x \in S :
                     \A y \in S : x.Rank * 4 + x.Suit <= y.Rank * 4 + y.Suit
         IN <<c>> \o SeqOfCards(S \ {c})

\* Seven distinct cards, five on the board and two in the hole; not yet
\* evaluated.
InitHands ==
    /\ NoCluster
    /\ nstep = 1
    /\ game = NewState(SmallBlind, BigBlind)
    /\ \E S \in SUBSET HandCards :
          /\ Cardinality(S) = 7
          /\ \E H \in SUBSET S :
                /\ Cardinality(H) = 2
                /\ call = [op |-> "deal", board |-> SeqOfCards(S \ H),
                           holes |-> SeqOfCards(H), value |-> fill(CatHighCard, <<>>)]

\* hv, five := BestHand7(board, holes)
DoBestHand7 ==
    /\ nstep > 0
    /\ nstep' = nstep - 1
    /\ call.op = "deal"
    /\ call' = [call EXCEPT !.op = "best_hand7",
                            !.value = BestHand7(call.board, call.holes)]
    /\ UNCHANGED <<tables, net, nextId, nprop, nbeat, last, game, threads>>

NextHands == DoBestHand7

SpecHands == InitHands /\ [][NextHands]_vars

(* ------------------------------- claims ------------------------------- *)
\* The table of the node that took the last step, after the step.
post == tables[last.node]

Delivered(type) == last.op = "deliver" /\ last.msg.Type = type

Ids(log) == {log[i].ID : i \in DOMAIN log}

\* C1: for each epoch, at most one node of the table is authority with
\* that epoch.
C1_OneAuthorityPerEpoch ==
    \A a, b \in Nodes :
        (tables[a].authority /\ tables[b].authority /\ tables[a].epoch = tables[b].epoch)
            => a = b

\* C2: no step lowers a replica's seq, and a step that applies commits
\* raises seq by exactly one for each commit it appends to the log.
C2_SeqContiguous ==
    last.op # "init" =>
        /\ post.seq >= last.pre.seq
        /\ Len(post.log) > Len(last.pre.log) =>
               post.seq - last.pre.seq = Len(post.log) - Len(last.pre.log)

\* C3: on every outbound stream, the commits an authority sent within one
\* epoch stand in strictly increasing seq order, the synthesized
\* advance_phase and showdown commits included.
C3_CommitsInSeqOrder ==
    \A s, r \in Nodes :
        \A i, j \in DOMAIN net[s][r] :
            (/\ i < j
             /\ net[s][r][i].Type = MsgCommit
             /\ net[s][r][j].Type = MsgCommit
             /\ net[s][r][i].Epoch = net[s][r][j].Epoch)
                => net[s][r][i].Seq < net[s][r][j].Seq

\* C4: no step lowers a replica's epoch.
C4_EpochMonotone == last.op # "init" => post.epoch >= last.pre.epoch

\* C4 witness: a replica handled a heartbeat carrying an epoch below its own.
C4_StaleHeartbeatHandled == Delivered(MsgHeartbeat) /\ last.msg.Epoch < last.pre.epoch

\* C5: any two replicas that handed the same committed action to the
\* engine got the same answer from it (both accepted, or both got the
\* same error).
C5_SameVerdict ==
    \A a, b \in Nodes :
        \A id \in (DOMAIN tables[a].verdict) \cap (DOMAIN tables[b].verdict) :
            tables[a].verdict[id] = tables[b].verdict[id]

\* Action ids in the log of some replica before the last step.
CommittedBefore ==
    Ids(last.pre.log) \cup UNION {Ids(tables[n].log) : n \in Nodes \ {last.node}}

\* C6: a propose received for an action id that some replica has already
\* committed, and a commit received for an id the receiver has already
\* applied, leave the receiver's seq, log and engine state unchanged.
C6_ReplayHasNoEffect ==
    (\/ Delivered(MsgPropose) /\ last.msg.Action.ID \in CommittedBefore
     \/ Delivered(MsgCommit) /\ last.msg.Action.ID \in Ids(last.pre.log))
        => /\ post.seq = last.pre.seq
           /\ post.log = last.pre.log
           /\ post.eng = last.pre.eng

\* C7: an authority that handles a heartbeat with an epoch above its own
\* ends the step as a follower, with the message's epoch and with the
\* sender as its authority.
C7_AuthorityStepsDown ==
    (Delivered(MsgHeartbeat) /\ last.pre.authority /\ last.msg.Epoch > last.pre.epoch)
        => /\ ~post.authority
           /\ post.epoch = last.msg.Epoch
           /\ post.authorityID = last.msg.From

\* C8: in a cluster of two nodes where node 1 is authority and node 2 is a
\* follower naming node 1, a timeout at node 2 makes it authority with
\* epoch 1 and makes it broadcast a snapshot.
C8_LargerNodeTakesOver ==
    (/\ last.op = "timeout"
     /\ Cardinality(Nodes) = 2
     /\ last.node = 2
     /\ ~last.pre.authority
     /\ last.pre.authorityID = 1
     /\ last.pre.epoch = 0
     /\ tables[1].authority)
        => /\ post.authority
           /\ post.epoch = 1
           /\ \E i \in DOMAIN last.out : last.out[i].Type = MsgSnapshot

\* Exactly one node is authority and every other node names it.
Converged ==
    \E a \in Nodes :
        /\ tables[a].authority
        /\ \A n \in Nodes \ {a} : ~tables[n].authority /\ tables[n].authorityID = a

\* Every message sent has been handled by the loop of its receiver.
AllDelivered == \A s, r \in Nodes : net[s][r] = <<>>

\* C9: once every message has been delivered, there is exactly one
\* authority and every other node names it.
C9_OneAuthorityOnceDelivered == AllDelivered => Converged

\* A follower handles a commit whose seq is beyond the next one.
GapCommit ==
    /\ Delivered(MsgCommit)
    /\ ~last.pre.authority
    /\ last.msg.Seq > last.pre.seq + 1

\* The commit goes past the epoch guard, the kick guard and the dedup check.
ReachesSequenceCheck ==
    /\ last.msg.Epoch >= last.pre.epoch
    /\ ~(last.msg.Action.Type = ActKick /\ last.msg.From # last.pre.authorityID)
    /\ last.msg.Action.ID \notin last.pre.dedup

\* The step applied nothing and asked for the state.
DroppedWithStateQuery ==
    /\ post.seq = last.pre.seq
    /\ post.log = last.pre.log
    /\ post.dedup = last.pre.dedup
    /\ post.eng = last.pre.eng
    /\ \E i \in DOMAIN last.out : last.out[i].Type = MsgStateQuery

\* A follower applies a commit only if it carries the seq after its own:
\* after a snapshot with seq s, the one with seq s + 1.
AppliesOnlyNextSeq ==
    (Delivered(MsgCommit) /\ ~last.pre.authority /\ post.log # last.pre.log)
        => last.msg.Seq = last.pre.seq + 1

\* C10 as stated: a follower with seq k that handles a commit with a seq
\* above k + 1 leaves seq, log, dedup and engine unchanged and emits a
\* state_query; and the commit a follower applies is the one with the seq
\* after its own.
C10_GapAsksForState ==
    /\ GapCommit => DroppedWithStateQuery
    /\ AppliesOnlyNextSeq

\* C10 amended: the same for a commit with a seq above k + 1 that the
\* epoch guard and the kick guard let in and whose action id is not in
\* dedup.
C10_AcceptedGapAsksForState ==
    /\ (GapCommit /\ ReachesSequenceCheck) => DroppedWithStateQuery
    /\ AppliesOnlyNextSeq

\* C10 witness: a follower dropped a commit with a gap and asked for the
\* state.
C10_GapSeen == GapCommit /\ ReachesSequenceCheck /\ DroppedWithStateQuery


\* A kick that meets the auth guard: a kick propose handled by an authority,
\* or a kick commit handled by any replica, whose sender is not the node
\* the handling table holds as authority.
StrangerKick ==
    /\ last.op = "deliver"
    /\ last.msg.Action.Type = ActKick
    /\ last.msg.From # last.pre.authorityID
    /\ \/ last.msg.Type = MsgPropose /\ last.pre.authority
       \/ last.msg.Type = MsgCommit

\* C11: a kick propose received by the authority, or a kick commit
\* received by any replica, from a node other than the receiver's
\* authority_id is dropped: seq, log, dedup, engine state, epoch and
\* authority_id are unchanged and no message is emitted.
C11_StrangerKickDropped ==
    StrangerKick =>
        /\ post.seq = last.pre.seq
        /\ post.log = last.pre.log
        /\ post.dedup = last.pre.dedup
        /\ post.eng = last.pre.eng
        /\ post.epoch = last.pre.epoch
        /\ post.authorityID = last.pre.authorityID
        /\ last.out = <<>>

\* A kick commit of the current epoch with the next sequence number, not
\* seen before, from a node that is not the receiver's authority: only
\* the auth guard stands between it and the engine.
C11_KickCommitStopped ==
    /\ StrangerKick
    /\ last.msg.Type = MsgCommit
    /\ last.msg.Epoch >= last.pre.epoch
    /\ last.msg.Seq = last.pre.seq + 1
    /\ last.msg.Action.ID \notin last.pre.dedup
    /\ last.msg.Action.Target \in DOMAIN last.pre.eng.Seats

\* The propose half of the case: an authority drops a follower's kick.
C11_KickProposeStopped ==
    /\ StrangerKick
    /\ last.msg.Type = MsgPropose
    /\ last.msg.Action.ID \notin last.pre.dedup
    /\ last.msg.Action.Target \in DOMAIN last.pre.eng.Seats

RECURSIVE SumStacks(_, _)
SumStacks(s, P) ==
    IF P = {} THEN 0
    ELSE LET p == CHOOSE q \in P : TRUE
         IN s.Seats[p].Stack + SumStacks(s, P \ {p})

\* All the chips of the seats' stacks.
Stacks(s) == SumStacks(s, DOMAIN s.Seats)

\* sum(stacks) + pot
Chips(s) == Stacks(s) + s.Pot

HandOps == {"check", "fold", "bet", "call", "raise", "advance_phase", "showdown"}

\* C12: across the actions of one hand, from start_hand through betting,
\* advance_phase and showdown, sum(stacks) + pot stays constant and equals
\* the sum of stacks immediately before start_hand: start_hand leaves
\* sum(stacks) + pot equal to the stacks it found, and every later action
\* of the hand leaves sum(stacks) + pot as it found it.
C12_ChipsConserved ==
    /\ call.op = "start_hand" /\ call.err = NoErr => Chips(game) = Stacks(call.pre)
    /\ call.op \in HandOps => Chips(game) = Chips(call.pre)

\* The engine state an error must leave alone: the seats (stack, committed
\* and flags), the pot and the betting fields.
Betting(s) ==
    [Seats |-> s.Seats, Pot |-> s.Pot, CurrentBet |-> s.CurrentBet,
     LastRaiseSize |-> s.LastRaiseSize, ActorsToAct |-> s.ActorsToAct,
     TurnIdx |-> s.TurnIdx, HandActive |-> s.HandActive]

\* C13: whenever an engine action (sit, start_hand, check, fold, bet, call,
\* raise) returns an error, the engine state (stacks, committed, pot,
\* flags, current_bet, last_raise_size, actors_to_act, turn_idx) is
\* identical to the state before the call.
C13_ErrorChangesNothing ==
    call.err # NoErr => Betting(game) = Betting(call.pre)

\* C14: in every reachable engine state every seat satisfies
\* all_in => stack = 0 and folded => not in_hand (after blind posting,
\* short all-in calls and raises, and showdown payout too).
C14_SeatFlags ==
    \A p \in DOMAIN game.Seats :
        /\ game.Seats[p].AllIn => game.Seats[p].Stack = 0
        /\ game.Seats[p].Folded => ~game.Seats[p].InHand

\* C15: immediately after every advance_phase (from preflop, flop, turn or
\* river), every seat has committed = 0 and current_bet = 0.
C15_AdvanceResetsBets ==
    call.op = "advance_phase" /\ call.pre.Phase \in PhasePreflop..PhaseRiver =>
        /\ \A p \in DOMAIN game.Seats : game.Seats[p].Committed = 0
        /\ game.CurrentBet = 0

\* C16: after a showdown action, from every reachable pre-showdown state,
\* pot = 0 and the chips the showdown added to the seats' stacks equal the
\* pot before the showdown.
C16_ShowdownPaysThePot ==
    call.op = "showdown" =>
        /\ game.Pot = 0
        /\ Stacks(game) - Stacks(call.pre) = call.pre.Pot

\* C17: in every reachable state with a non-empty order,
\* 0 <= turn_idx < |order| and 0 <= dealer_idx < |order|, after any
\* sequence of join, leave, kick, start_hand and betting actions.
C17_IndicesInOrder ==
    game.Order # <<>> =>
        /\ 0 <= game.TurnIdx /\ game.TurnIdx < Len(game.Order)
        /\ 0 <= game.DealerIdx /\ game.DealerIdx < Len(game.Order)

\* The last call was Call by a seated player whose turn it was, behind the
\* current bet, with a stack smaller than the amount needed.
ShortCall ==
    /\ call.op = "call"
    /\ call.player \in DOMAIN call.pre.Seats
    /\ ensureTurn(call.pre, call.player)
    /\ call.pre.CurrentBet > call.pre.Seats[call.player].Committed
    /\ call.pre.Seats[call.player].Stack
         < call.pre.CurrentBet - call.pre.Seats[call.player].Committed

\* The caller paid its whole stack and is all-in, nobody else's seat
\* changed, current_bet and last_raise_size are as before, and
\* actors_to_act is one less.
PaidAllInNoReopen ==
    /\ call.err = NoErr
    /\ game.Seats = [call.pre.Seats EXCEPT
           ![call.player] = [@ EXCEPT !.Stack = 0, !.AllIn = TRUE,
                                      !.Committed = @ + call.pre.Seats[call.player].Stack]]
    /\ game.Pot = call.pre.Pot + call.pre.Seats[call.player].Stack
    /\ game.CurrentBet = call.pre.CurrentBet
    /\ game.LastRaiseSize = call.pre.LastRaiseSize
    /\ game.ActorsToAct = call.pre.ActorsToAct - 1

C18_RoundClosesAfterShortCall ==
    /\ call.op = "call" /\ call.err = NoErr /\ ~ShortCall
    /\ Len(game.Order) = 3
    /\ \E p \in DOMAIN game.Seats :
          game.Seats[p].AllIn /\ 0 < game.Seats[p].Committed
                              /\ game.Seats[p].Committed < game.CurrentBet
    /\ game.CurrentBet > BigBlind
    /\ call.pre.ActorsToAct = 1
    /\ game.ActorsToAct = 0
    /\ RoundClosed(game)

\* What a raiser has to pay: the call part and the increment.
RaiseTotal ==
    (IF call.pre.Seats[call.player].Committed < call.pre.CurrentBet
     THEN call.pre.CurrentBet - call.pre.Seats[call.player].Committed ELSE 0)
    + call.amount

\* The last call was Raise by a seated player whose turn it was, over an
\* existing bet, with a stack that covers the call and the increment.
CoveredRaise ==
    /\ call.op = "raise"
    /\ call.player \in DOMAIN call.pre.Seats
    /\ ensureTurn(call.pre, call.player)
    /\ call.pre.CurrentBet > 0
    /\ call.pre.Seats[call.player].Stack >= RaiseTotal

C19_ShortRaiseRejected ==
    /\ CoveredRaise
    /\ call.amount = call.pre.LastRaiseSize - 1
    /\ call.err = "raise too small (below min-raise)"

\* The public engine state: every field except the deck and the hole cards.
Public(s) ==
    [SmallBlind |-> s.SmallBlind, BigBlind |-> s.BigBlind, DealerIdx |-> s.DealerIdx,
     Order |-> s.Order, TurnIdx |-> s.TurnIdx, Phase |-> s.Phase, Pot |-> s.Pot,
     Board |-> s.Board, Seats |-> s.Seats, CurrentBet |-> s.CurrentBet,
     ActorsToAct |-> s.ActorsToAct, LastRaiseSize |-> s.LastRaiseSize,
     HandActive |-> s.HandActive]

\* The engine of a replica that was in state r and installs the snapshot an
\* authority took of e (Snapshot, JSON out and in, RestoreFromSnapshot).
Restored(r, e) ==
    RestoreFromSnapshot(r, UnmarshalEngine(MarshalEngine(EngineSnapshot(e))))

\* C20: for every reachable engine state e, restoring snapshot(e), here
\* into the new engine of a replica that discovers the table, yields an
\* engine equal to e on all public engine state.
C20_SnapshotRoundTrip ==
    Public(Restored(NewState(SmallBlind, BigBlind), game)) = Public(game)

\* The last step was taken by an authority and committed a user action:
\* the last action it added to its log (commitAndBroadcast logs an action
\* after the commits that apply synthesized for it).
AuthorityCommitted ==
    /\ last.op \in {"propose", "deliver"}
    /\ last.pre.authority
    /\ Len(post.log) > Len(last.pre.log)

UserAction == post.log[Len(post.log)]

\* A two-seat hand right after start_hand: blinds posted, nobody folded.
HeadsUpJustStarted(s) ==
    /\ Len(s.Order) = 2
    /\ s.HandActive
    /\ s.Phase = PhasePreflop
    /\ s.Pot = SmallBlind + BigBlind
    /\ \A p \in DOMAIN s.Seats : s.Seats[p].InHand /\ ~s.Seats[p].Folded

\* The authority committed the fold of the seat to act in such a hand.
PreflopFold ==
    /\ AuthorityCommitted
    /\ HeadsUpJustStarted(last.pre.eng)
    /\ UserAction.Type = ActFold
    /\ UserAction.PlayerID = CurrentPlayer(last.pre.eng)

\* C21: two seats, blinds 5/10, start_hand; when the seat to act folds the
\* hand ends: pot = 0, the hand is no longer active, the folder keeps its
\* stack and the other seat's stack has grown by the pot.
C21_PreflopFoldEndsHand ==
    PreflopFold =>
        /\ post.eng.Pot = 0
        /\ ~post.eng.HandActive
        /\ \A p \in DOMAIN post.eng.Seats :
              post.eng.Seats[p].Stack =
                  last.pre.eng.Seats[p].Stack
                  + (IF p = UserAction.PlayerID THEN 0 ELSE last.pre.eng.Pot)

\* The remainder loop of ResolveShowdown from step i on: the seats that get
\* one chip while rem chips are left.
RECURSIVE WalkBonus(_, _, _, _)
WalkBonus(s, winners, i, rem) ==
    IF i >= Len(s.Order) \/ rem = 0 THEN {}
    ELSE LET pid == At(s.Order, (((s.DealerIdx + 1) % Len(s.Order)) + i) % Len(s.Order))
         IN IF pid \in winners
            THEN {pid} \cup WalkBonus(s, winners, i + 1, rem - 1)
            ELSE WalkBonus(s, winners, i + 1, rem)

\* A showdown was resolved among n >= 1 winners.
ShowdownSplit ==
    /\ call.op = "showdown"
    /\ showdownWinners(call.pre) # {}

\* C22: after a showdown with n winners and pot P, every winner's stack has
\* grown by floor(P/n), plus one chip for the first P mod n winners met
\* walking the seat order from (dealer_idx+1) mod N, and no other seat's
\* stack has changed.
C22_RemainderLeftOfDealer ==
    ShowdownSplit =>
        LET pre == call.pre
            W == showdownWinners(pre)
            n == Cardinality(W)
            bonus == WalkBonus(pre, W, 0, pre.Pot % n)
        IN \A p \in DOMAIN game.Seats :
              game.Seats[p].Stack =
                  pre.Seats[p].Stack
                  + (IF p \in W THEN pre.Pot \div n ELSE 0)
                  + (IF p \in bonus THEN 1 ELSE 0)

\* A pot split among three winners that leaves two chips over: the two
\* winners left of the dealer got one chip more than the dealer.
C22_ThreeWaySplitWithLeftover ==
    /\ ShowdownSplit
    /\ Cardinality(showdownWinners(call.pre)) = 3
    /\ call.pre.Pot % 3 = 2
    /\ LET d == At(call.pre.Order, call.pre.DealerIdx)
       IN /\ d \in showdownWinners(call.pre)
          /\ game.Seats[d].Stack = call.pre.Seats[d].Stack + call.pre.Pot \div 3
          /\ \A p \in showdownWinners(call.pre) \ {d} :
                game.Seats[p].Stack = call.pre.Seats[p].Stack + call.pre.Pot \div 3 + 1

\* Goroutine th is inside commitAndBroadcast, between its first read of
\* dedup and its last read of seq.
InCommit(th) == threads.pc[th] # "idle"

\* C23: seq, log, dedup and the engine are read and written by the Run loop
\* alone: the command shell is never inside commitAndBroadcast while Run is
\* handling an inbound message.
C23_OnlyRunTouchesState == ~(InCommit("repl") /\ InCommit("run"))

\* What the two goroutines can leave behind: two commits on netOut with the
\* same seq.
C23_CommitsHaveOwnSeq ==
    \A i, j \in 1..Len(threads.out) :
        threads.out[i].Seq = threads.out[j].Seq => i = j

\* A replica handles a commit that is not new to it: its seq is not above
\* the replica's, or its action id is in the replica's dedup.
OldCommit ==
    /\ Delivered(MsgCommit)
    /\ \/ last.msg.Seq <= last.pre.seq
       \/ last.msg.Action.ID \in last.pre.dedup

\* C24: a commit whose seq is at most the replica's seq, or whose action id
\* is in its dedup, is dropped silently: seq, log, dedup and engine are as
\* before and the step emits no message (no state_query).
C24_OldCommitDroppedSilently ==
    OldCommit =>
        /\ post.seq = last.pre.seq
        /\ post.log = last.pre.log
        /\ post.dedup = last.pre.dedup
        /\ post.eng = last.pre.eng
        /\ last.out = <<>>

\* A replica handles a commit, snapshot or heartbeat stamped with an epoch
\* below its own.
StaleMessage ==
    /\ last.op = "deliver"
    /\ last.msg.Type \in {MsgCommit, MsgSnapshot, MsgHeartbeat}
    /\ last.msg.Epoch < last.pre.epoch

\* C25: a commit, snapshot or heartbeat with an epoch below the receiver's
\* changes none of the receiver's epoch, authority_id, seq, log, dedup,
\* engine state and last_heartbeat_received.
C25_StaleMessageChangesNothing ==
    StaleMessage => (post = last.pre /\ ~last.beat)

\* C25 witness: a replica has dropped a commit of a lower epoch that
\* carried the seq after its own and an action id new to it.
C25_StaleCommitDropped ==
    /\ StaleMessage
    /\ last.msg.Type = MsgCommit
    /\ last.msg.Seq = last.pre.seq + 1
    /\ last.msg.Action.ID \notin last.pre.dedup
    /\ post = last.pre
    /\ ~last.beat

\* The user of a replica that is not the authority gave a command.
FollowerProposed == last.op = "propose" /\ ~last.pre.authority

\* The step put one message on netOut: a propose from the replica, stamped
\* with its epoch.
OneProposeEmitted ==
    /\ Len(last.out) = 1
    /\ last.out[1].Type = MsgPropose
    /\ last.out[1].From = last.node
    /\ last.out[1].Epoch = last.pre.epoch

\* C26: ProposeLocal on a replica that is not the authority emits one
\* propose stamped with the replica's epoch and leaves its seq, log, dedup,
\* engine, epoch and authority_id as they were; an action enters the log of
\* such a replica only by a commit of that action it receives.
C26_FollowerOnlyProposes ==
    /\ FollowerProposed => (OneProposeEmitted /\ post = last.pre)
    /\ (last.op # "init" /\ ~last.pre.authority /\ post.log # last.pre.log) =>
          /\ Delivered(MsgCommit)
          /\ post.log = Append(last.pre.log, last.msg.Action)

\* C26 witness: a follower's user gave a command; the follower emitted the
\* propose and nothing of its table changed.
C26_FollowerProposeEmitted == FollowerProposed /\ OneProposeEmitted /\ post = last.pre

\* A follower has received the commit of an action of its own user; the
\* action is the last of its log.
C26_ProposedActionCommitted ==
    /\ Delivered(MsgCommit)
    /\ ~last.pre.authority
    /\ last.msg.Action.PlayerID = last.node
    /\ last.msg.Action.ID \notin Ids(last.pre.log)
    /\ post.log = Append(last.pre.log, last.msg.Action)

\* The largest amount a seat has committed in the current betting round.
MaxCommitted(s) ==
    IF DOMAIN s.Seats = {} THEN 0
    ELSE CHOOSE m \in {s.Seats[p].Committed : p \in DOMAIN s.Seats} :
            \A p \in DOMAIN s.Seats : s.Seats[p].Committed <= m

\* C27: while a hand is active, after the blinds are posted (start_hand) and
\* after every accepted bet, call and raise, current_bet is the maximum
\* committed over all seats.
C27_CurrentBetIsMaxCommitted ==
    (/\ call.op \in {"start_hand", "bet", "call", "raise"}
     /\ call.err = NoErr
     /\ game.HandActive)
        => game.CurrentBet = MaxCommitted(game)

\* The seats that may act in this betting round.
EligibleSeats(s) == {p \in Range(s.Order) : eligible(s, p)}

\* The eligible seats that have committed less than current_bet.
BehindSeats(s) == {p \in EligibleSeats(s) : s.Seats[p].Committed < s.CurrentBet}

\* An accepted call of one of the operations of a betting round that found
\* the round open (or opened one) and left it open.
RoundCall ==
    /\ call.op \in {"start_hand", "bet", "raise", "call", "check", "fold", "advance_phase"}
    /\ call.err = NoErr
    /\ game.HandActive
    /\ ~RoundClosed(game)
    /\ \/ call.op \in {"start_hand", "advance_phase"}
       \/ call.pre.HandActive /\ ~RoundClosed(call.pre)

\* C28: in an active betting round actors_to_act is the number of eligible
\* seats that have not acted since the last aggressive action or are behind
\* current_bet; whichever seats have acted, that number is at least the
\* number of eligible seats behind current_bet and at most the number of
\* eligible seats.
C28_ActorsToActCountsSeats ==
    RoundCall =>
        /\ Cardinality(BehindSeats(game)) <= game.ActorsToAct
        /\ game.ActorsToAct <= Cardinality(EligibleSeats(game))

\* No remaining seat owes action: all seats but one have folded, or every
\* seat still in the hand is all-in.
NoSeatOwesAction(s) ==
    \/ Cardinality(showdownSeats(s)) = 1
    \/ (showdownSeats(s) # {} /\ EligibleSeats(s) = {})

\* Nothing is left to drive the table: the users give no more commands and
\* every message sent has been handled.
NothingPending == nprop = 0 /\ AllDelivered

\* C29: the authority advances a hand by itself: when nothing is pending no
\* authority is left with an active hand whose betting round is closed, and
\* a hand in which no remaining seat owes action has been paid out
\* (pot = 0, hand_active = false).
C29_ClosedRoundRunsToPayout ==
    NothingPending =>
        \A n \in Nodes :
            (tables[n].authority /\ tables[n].eng.HandActive) =>
                /\ ~RoundClosed(tables[n].eng)
                /\ ~NoSeatOwesAction(tables[n].eng)

\* A betting action was called for a seat that may not act: folded, all-in
\* or not in the hand, or at a table with no hand active.
IneligibleCall ==
    /\ call.op \in {"check", "bet", "call", "raise", "fold"}
    /\ \/ ~eligible(call.pre, call.player)
       \/ ~call.pre.HandActive

\* C30: a check, bet, call, raise or fold by a seat that is folded, all-in
\* or not in the hand, or made while no hand is active, is rejected,
\* wherever turn_idx points.
C30_IneligibleSeatRejected == IneligibleCall => call.err # NoErr

\* The first live seat (in hand, not folded, not all-in) at or after
\* position (DealerIdx+1) mod N of the seat order; None without one.
FirstLiveLeftOfDealer(s) ==
    LET n == Len(s.Order)
        start == (s.DealerIdx + 1) % n
        liveAt(k) == eligible(s, At(s.Order, (start + k) % n))
        hits == {k \in 0..(n - 1) : liveAt(k)}
    IN IF n = 0 \/ hits = {} THEN None
       ELSE At(s.Order, (start + (CHOOSE k \in hits : \A j \in hits : k <= j)) % n)

\* advance_phase has moved the hand to the flop, the turn or the river.
AdvancedToStreet ==
    /\ call.op = "advance_phase"
    /\ game.Phase \in {PhaseFlop, PhaseTurn, PhaseRiver}
    /\ game.Phase # call.pre.Phase

\* C31: after advance_phase to flop, turn or river, turn_idx points at the
\* first live seat at or after (dealer_idx+1) mod N in seat order.
C31_TurnAtFirstLiveSeat ==
    (AdvancedToStreet /\ FirstLiveLeftOfDealer(game) # None)
        => CurrentPlayer(game) = FirstLiveLeftOfDealer(game)

\* The last step made its node the authority.
TookOver == last.op # "init" /\ ~last.pre.authority /\ post.authority

\* C32: a replica becomes authority only in a step of its follower timer
\* (nothing handled for max(follower_timeout, 3s)), and only if its node id
\* is smaller than its authority_id or it knows no authority; the step sets
\* is_authority, raises the epoch by one, sets authority_id to the node and
\* emits a heartbeat followed by a snapshot, both with the new epoch.
C32_TakeoverStep ==
    /\ TookOver =>
          /\ last.op = "timeout"
          /\ last.pre.authorityID = None \/ last.node < last.pre.authorityID
          /\ post.epoch = last.pre.epoch + 1
          /\ post.authorityID = last.node
          /\ Len(last.out) = 2
          /\ last.out[1].Type = MsgHeartbeat
          /\ last.out[2].Type = MsgSnapshot
          /\ \A i \in 1..2 : last.out[i].Epoch = post.epoch /\ last.out[i].From = last.node
          /\ last.out[2].State.Epoch = post.epoch
    /\ (last.op = "timeout" /\ ~TookOver) => (post = last.pre /\ last.out = <<>>)

\* C32 witness: the follower timer of a node below its authority fired and
\* the node took over with a heartbeat and a snapshot of the new epoch.
C32_SmallerNodeTookOver ==
    /\ TookOver
    /\ last.op = "timeout"
    /\ last.node < last.pre.authorityID
    /\ post.epoch = last.pre.epoch + 1
    /\ Len(last.out) = 2

Max(a, b) == IF a >= b THEN a ELSE b

\* What the calls that returned so far show: tick_remote(r) returned
\* max(old, r) + 1 for the value old it replaced, every call returned more
\* than the counter held when the call began, and the values returned grow
\* from one atomic update to the next (no value twice, no decrease).
ClockCallsInOrder ==
    LET rets == threads.rets
    IN /\ \A i \in DOMAIN rets :
             /\ rets[i].remote # None => rets[i].ret = Max(rets[i].old, rets[i].remote) + 1
             /\ rets[i].remote = None => rets[i].ret = rets[i].old + 1
             /\ rets[i].ret > rets[i].start
       /\ \A i, j \in DOMAIN rets : i < j => rets[i].ret < rets[j].ret

\* No call so far met the top of the counter's range: neither the value it
\* replaced nor its remote value was 2^w - 1.
BelowTop ==
    \A i \in DOMAIN threads.rets :
        /\ threads.rets[i].old < ClockMod - 1
        /\ threads.rets[i].remote # None => threads.rets[i].remote < ClockMod - 1

\* C33 as stated: under any interleaving of tick_local and tick_remote(r)
\* calls on one clock, tick_remote(r) returns max(current, r) + 1 for the
\* value it replaces, every call returns more than the counter before the
\* call, no two calls return the same value and the counter never decreases.
C33_ClockTicksInOrder == ClockCallsInOrder

\* C33 amended: the same as long as no call met the top of the uint64 range
\* (a remote value of 2^64 - 1 wraps the counter to 0).
C33_ClockTicksInOrderBelowTop == BelowTop => ClockCallsInOrder

\* C33 witness: two tick_remote calls overlapped, the compare-and-swap of
\* one failed and it returned a larger value after loading again.
C33_RemoteTickRetried ==
    /\ BelowTop
    /\ \E i, j \in DOMAIN threads.rets :
          /\ i < j
          /\ threads.rets[i].remote # None
          /\ threads.rets[j].remote # None
          /\ threads.rets[j].start < threads.rets[i].ret
          /\ threads.rets[j].old = threads.rets[i].ret
          /\ threads.rets[j].start # threads.rets[j].old

\* The goroutines inside DiscoverAndAttach that hold a waiter for table id.
Waiting(id) == {th \in Goroutines : threads.pc[th] # "idle" /\ threads.id[th] = id}

\* Each table id has at most one waiter, the channel of the one call in
\* progress for it; no waiter is left of a call that has returned.
WaitersInProgress ==
    \A id \in TableIds :
        /\ Cardinality(Waiting(id)) <= 1
        /\ \A th \in Waiting(id) :
              id \in DOMAIN threads.pending /\ threads.pending[id] = threads.ch[th]
        /\ id \in DOMAIN threads.pending => Waiting(id) # {}

\* A call that finds a discovery pending for its id returns 'discovery
\* already in progress' and touches neither the waiters nor the other call.
SecondCallTurnedAway ==
    nprop' < nprop =>
        /\ \A th \in Goroutines :
              (threads.pc[th] = "idle" /\ threads'.pc[th] = "ask")
                  => threads'.id[th] \notin DOMAIN threads.pending
        /\ threads'.pc = threads.pc =>
              /\ \E th \in Goroutines :
                    /\ threads'.res[th] = "discovery already in progress"
                    /\ threads'.id[th] \in DOMAIN threads.pending
              /\ threads'.pending = threads.pending
              /\ threads'.full = threads.full
              /\ threads'.ch = threads.ch

\* C34: at most one discovery waiter exists per table id; a second
\* DiscoverAndAttach for an id with a pending discovery returns 'discovery
\* already in progress' without disturbing the first; and once a
\* DiscoverAndAttach has returned (snapshot or timeout) its waiter is gone,
\* so that a later discovery of the id can start.
C34_OneWaiterPerTable == []WaitersInProgress /\ [][SecondCallTurnedAway]_vars

\* C34 witness: a discovery of a table timed out, a new discovery of the
\* same table is waiting, and a second call for it was turned away.
C34_DiscoveryStartedAgain ==
    \E th, other \in Goroutines : \E id \in TableIds :
        /\ th # other
        /\ threads.pc[th] = "wait"
        /\ threads.id[th] = id
        /\ threads.ch[th] > 1
        /\ threads.pending[id] = threads.ch[th]
        /\ threads.id[other] = id
        /\ threads.res[other] = "discovery already in progress"

\* C35: in every reachable engine state, hand active or not, pot,
\* current_bet, last_raise_size and actors_to_act are >= 0 and every seat
\* has stack >= 0 and committed >= 0.
C35_NothingNegative ==
    /\ game.Pot >= 0
    /\ game.CurrentBet >= 0
    /\ game.LastRaiseSize >= 0
    /\ game.ActorsToAct >= 0
    /\ \A p \in DOMAIN game.Seats :
          game.Seats[p].Stack >= 0 /\ game.Seats[p].Committed >= 0

\* The five-card subsets of the seven cards evaluated last.
FiveOfSeven ==
    LET all == Range(call.board) \cup Range(call.holes)
    IN {F \in SUBSET all : Cardinality(F) = 5}

\* The value of a five-card hand.
ValueOfFive(F) == BestHand7(SeqOfCards(F), <<>>)

\* C36: for every 7 distinct cards BestHand7 returns the value that is
\* maximal under Less among the values of the 21 five-card subsets (the
\* wheel A-2-3-4-5 a 5-high straight, below a 6-high one).
C36_BestOfAllFives ==
    call.op = "best_hand7" =>
        /\ \A F \in FiveOfSeven : ~Less(call.value, ValueOfFive(F))
        /\ \E F \in FiveOfSeven : call.value = ValueOfFive(F)

\* The commit messages emitted by the last step or still on their way.
CommitsOut ==
    {m \in Range(last.out) \cup UNION {Range(net[s][r]) : s, r \in Nodes} :
        m.Type = MsgCommit}

\* C37: log agreement: no two different actions are ever committed under
\* the same (epoch, seq); commits that carry the same epoch and sequence
\* number carry the same action id.
C37_LogAgreement ==
    \A m1, m2 \in CommitsOut :
        m1.Epoch = m2.Epoch /\ m1.Seq = m2.Seq => m1.Action.ID = m2.Action.ID

\* The player at 0-based index i of order, None if there is none.
Designated(order, i) == IF i + 1 \in DOMAIN order THEN order[i + 1] ELSE None

\* The last call seated or removed a player while a hand was active.
SeatChangeInHand ==
    /\ call.op \in {"sit", "leave"}
    /\ call.err = NoErr
    /\ call.pre.HandActive

\* C38: a join, leave or kick applied while a hand is active leaves
\* turn_idx and dealer_idx on the players they designated before, unless
\* the designated player is the one removed.
C38_IndicesFollowPlayers ==
    SeatChangeInHand =>
        LET turn == Designated(call.pre.Order, call.pre.TurnIdx)
            dealer == Designated(call.pre.Order, call.pre.DealerIdx)
            removed == IF call.op = "leave" THEN call.player ELSE None
        IN /\ turn # removed => Designated(game.Order, game.TurnIdx) = turn
           /\ dealer # removed => Designated(game.Order, game.DealerIdx) = dealer

\* What the last call may add to sum(stacks) + pot: the buy-in of a seat
\* that joined, less the stack of a seat that left.
SeatChips ==
    IF call.op = "sit" /\ call.err = NoErr THEN call.amount
    ELSE IF call.op = "leave" /\ call.player \in DOMAIN call.pre.Seats
    THEN 0 - call.pre.Seats[call.player].Stack
    ELSE 0

\* C39: chips are never destroyed: a start_hand applied while pot > 0 does
\* not discard the pot, and sum(stacks) + pot changes only by a joining
\* seat's buy-in and a leaving seat's stack.
C39_ChipsNeverDestroyed ==
    call.op # "new" => Chips(game) = Chips(call.pre) + SeatChips

\* The types of the messages the last step put on netOut.
TypesOut == {m.Type : m \in Range(last.out)}

\* C40: only a node whose authority flag is true emits commit, heartbeat
\* or snapshot messages; a non-authority replica emits only propose and
\* state_query messages.
C40_OnlyAuthorityCommits ==
    last.out # <<>> =>
        /\ TypesOut \cap {MsgCommit, MsgHeartbeat, MsgSnapshot} # {}
             => tables[last.node].authority
        /\ ~tables[last.node].authority
             => TypesOut \subseteq {MsgPropose, MsgStateQuery}

\* A follower that saw a gap in the sequence asked for the state.
C40_FollowerAskedForState ==
    /\ last.op = "deliver"
    /\ ~tables[last.node].authority
    /\ TypesOut = {MsgStateQuery}

\* A node that took over sent its first heartbeat and snapshot.
C40_NewAuthorityAnnounced ==
    /\ last.op = "timeout"
    /\ ~last.pre.authority
    /\ TypesOut = {MsgHeartbeat, MsgSnapshot}
====
